---- MODULE Spec2Model ----
(***************************************************************************)
(* A model of the barforge application core: module identity parsing,      *)
(* install paths, archive extraction, registry mapping, the registry cache *)
(* tasks, the confirmation / uninstall handlers, the bar configuration     *)
(* and stylesheet mutators, the author profile and review fetches, the     *)
(* reload signal, the preferences handlers, the Escape key and the star    *)
(* rating text.                                                            *)
(*                                                                         *)
(* Strings are sequences of one-character strings, so that find, contains, *)
(* slicing and path splitting are computed as the code computes them.      *)
(***************************************************************************)
EXTENDS Integers, Sequences, FiniteSets, Bags, TLC

(***************************************************************************)
(* Bounds of the model.                                                    *)
(***************************************************************************)
\* longest uuid input string
MaxLen == 5

(***************************************************************************)
(* Characters.                                                             *)
(***************************************************************************)
At == "@"
Dot == "."
Slash == "/"
Backslash == "\\"
\* the NUL character '\0'
Nul == "NUL"

UuidChars == {"a", At, Dot, Slash, Backslash, Nul}

\* all strings over cs of length at most n
StringsUpTo(cs, n) == UNION {[1..k -> cs] : k \in 0..n}

(***************************************************************************)
(* String helpers (Rust str::find, str::contains, slicing).                *)
(***************************************************************************)
\* str::find(ch): index of the first occurrence of ch, 0 when there is none
Find(s, ch) ==
    IF \E i \in 1..Len(s) : s[i] = ch
    THEN CHOOSE i \in 1..Len(s) : s[i] = ch /\ \A j \in 1..(i - 1) : s[j] # ch
    ELSE 0

\* str::contains(ch)
ContainsChar(s, ch) == \E i \in 1..Len(s) : s[i] = ch

\* str::contains(pat) for a string pattern
ContainsStr(s, pat) ==
    \E i \in 1..(Len(s) - Len(pat) + 1) : SubSeq(s, i, i + Len(pat) - 1) = pat

DotDot == <<Dot, Dot>>
DotDotSlash == <<Dot, Dot, Slash>>
DotDotBackslash == <<Dot, Dot, Backslash>>

(***************************************************************************)
(* ModuleUuid (domain/module.rs).                                          *)
(***************************************************************************)
UuidErr(kind) == [ok |-> FALSE, err |-> kind, name |-> <<>>, namespace |-> <<>>]

UuidOk(name, namespace) == [ok |-> TRUE, err |-> "", name |-> name, namespace |-> namespace]

\* the traversal test of try_from
IsTraversal(value, name, namespace) ==
    \/ name = DotDot
    \/ namespace = DotDot
    \/ ContainsStr(value, DotDotSlash)
    \/ ContainsStr(value, DotDotBackslash)

\* the invalid-character test of try_from
HasInvalidCharacter(value) ==
    \/ ContainsChar(value, Slash)
    \/ ContainsChar(value, Backslash)
    \/ ContainsChar(value, Nul)

try_from_characters_first(value) ==
    LET at_pos == Find(value, At)
        name == SubSeq(value, 1, at_pos - 1)
        namespace == SubSeq(value, at_pos + 1, Len(value))
    IN  IF at_pos = 0 THEN UuidErr("MissingAtSymbol")
        ELSE IF name = <<>> THEN UuidErr("EmptyName")
        ELSE IF namespace = <<>> THEN UuidErr("EmptyNamespace")
        ELSE IF HasInvalidCharacter(value) THEN UuidErr("InvalidCharacter")
        ELSE IF IsTraversal(value, name, namespace) THEN UuidErr("PathTraversalAttempt")
        ELSE UuidOk(name, namespace)

try_from_without_character_check(value) ==
    LET at_pos == Find(value, At)
        name == SubSeq(value, 1, at_pos - 1)
        namespace == SubSeq(value, at_pos + 1, Len(value))
    IN  IF at_pos = 0 THEN UuidErr("MissingAtSymbol")
        ELSE IF name = <<>> THEN UuidErr("EmptyName")
        ELSE IF namespace = <<>> THEN UuidErr("EmptyNamespace")
        ELSE IF IsTraversal(value, name, namespace) THEN UuidErr("PathTraversalAttempt")
        ELSE UuidOk(name, namespace)

try_from_namespace_checked_first(value) ==
    LET at_pos == Find(value, At)
        name == SubSeq(value, 1, at_pos - 1)
        namespace == SubSeq(value, at_pos + 1, Len(value))
    IN  IF at_pos = 0 THEN UuidErr("MissingAtSymbol")
        ELSE IF namespace = <<>> THEN UuidErr("EmptyNamespace")
        ELSE IF name = <<>> THEN UuidErr("EmptyName")
        ELSE IF IsTraversal(value, name, namespace) THEN UuidErr("PathTraversalAttempt")
        ELSE IF HasInvalidCharacter(value) THEN UuidErr("InvalidCharacter")
        ELSE UuidOk(name, namespace)

\* ModuleUuid::try_from(&str)
try_from(value) ==
    LET at_pos == Find(value, At)
        name == SubSeq(value, 1, at_pos - 1)
        namespace == SubSeq(value, at_pos + 1, Len(value))
    IN  IF at_pos = 0 THEN UuidErr("MissingAtSymbol")
        ELSE IF name = <<>> THEN UuidErr("EmptyName")
        ELSE IF namespace = <<>> THEN UuidErr("EmptyNamespace")
        ELSE IF IsTraversal(value, name, namespace) THEN UuidErr("PathTraversalAttempt")
        ELSE IF HasInvalidCharacter(value) THEN UuidErr("InvalidCharacter")
        ELSE UuidOk(name, namespace)

to_string_without_separator(uuid) == uuid.name \o uuid.namespace

\* impl Display for ModuleUuid
to_string(uuid) == uuid.name \o <<At>> \o uuid.namespace

(***************************************************************************)
(* Paths (services/paths.rs).  A path is its sequence of components, each  *)
(* a string; PathBuf::join splits the joined string at '/', drops empty    *)
(* and "." components, keeps ".." as a parent-directory component, and     *)
(* replaces the base when the joined string is absolute.                   *)
(***************************************************************************)
RECURSIVE SplitAt(_, _)
\* the pieces of s between occurrences of ch
SplitAt(s, ch) ==
    LET p == Find(s, ch)
    IN  IF p = 0 THEN <<s>>
        ELSE <<SubSeq(s, 1, p - 1)>> \o SplitAt(SubSeq(s, p + 1, Len(s)), ch)

RECURSIVE KeepComponents(_)
KeepComponents(parts) ==
    IF parts = <<>> THEN <<>>
    ELSE IF Head(parts) = <<>> \/ Head(parts) = <<Dot>> THEN KeepComponents(Tail(parts))
    ELSE <<Head(parts)>> \o KeepComponents(Tail(parts))

\* Path::components of a relative or absolute path string (root not included)
Components(s) == KeepComponents(SplitAt(s, Slash))

IsAbsolute(s) == Len(s) > 0 /\ s[1] = Slash

RootDir == <<Slash>>

\* PathBuf::join
PathJoin(base, s) == IF IsAbsolute(s) THEN <<RootDir>> \o Components(s) ELSE base \o Components(s)

\* data_dir(): <data>/waybar-manager
data_dir == <<RootDir, <<"d">>, <<"w">>>>

\* modules_dir(): data_dir().join("modules")
modules_dir == PathJoin(data_dir, <<"m">>)

\* module_install_path(uuid)
module_install_path(uuid) == PathJoin(modules_dir, uuid)

RECURSIVE Resolve(_, _)
\* the directory a component sequence names once every ".." has been followed
Resolve(acc, comps) ==
    IF comps = <<>> THEN acc
    ELSE IF Head(comps) = DotDot
         THEN Resolve(IF Len(acc) > 1 THEN SubSeq(acc, 1, Len(acc) - 1) ELSE acc, Tail(comps))
    ELSE Resolve(Append(acc, Head(comps)), Tail(comps))

IsPrefix(p, q) == Len(p) <= Len(q) /\ SubSeq(q, 1, Len(p)) = p

\* p names a direct child of directory dir
IsDirectChild(p, dir) ==
    /\ Len(p) = Len(dir) + 1
    /\ IsPrefix(dir, p)
    /\ p[Len(p)] # DotDot
    /\ Resolve(<<>>, p) = p

(***************************************************************************)
(* State of the identity specification: one input string, the result of    *)
(* parsing it, the install path computed from it, the Display output of    *)
(* the parsed value and the result of parsing that output.                 *)
(***************************************************************************)
VARIABLES value, parsed, install_path, formatted, reparsed, upc

uuidVars == <<value, parsed, install_path, formatted, reparsed, upc>>

NoPath == <<>>

UuidIdle ==
    /\ value = <<>>
    /\ parsed = UuidErr("")
    /\ install_path = NoPath
    /\ formatted = <<>>
    /\ reparsed = UuidErr("")
    /\ upc = "off"

UuidInit ==
    /\ value \in StringsUpTo(UuidChars, MaxLen)
    /\ parsed = UuidErr("")
    /\ install_path = NoPath
    /\ formatted = <<>>
    /\ reparsed = UuidErr("")
    /\ upc = "input"

\* ModuleUuid::try_from(value)
TryFrom ==
    /\ upc = "input"
    /\ parsed' = try_from(value)
    /\ upc' = "parsed"
    /\ UNCHANGED <<value, install_path, formatted, reparsed>>

\* paths::module_install_path(value)
ModuleInstallPath ==
    /\ upc = "parsed"
    /\ install_path' = module_install_path(value)
    /\ upc' = "joined"
    /\ UNCHANGED <<value, parsed, formatted, reparsed>>

\* uuid.to_string() of the parsed value, and ModuleUuid::try_from of the output
FormatAndParse ==
    /\ upc = "joined"
    /\ parsed.ok
    /\ formatted' = to_string(parsed)
    /\ reparsed' = try_from(formatted')
    /\ upc' = "formatted"
    /\ UNCHANGED <<value, parsed, install_path>>

(***************************************************************************)
(* Archive extraction (security/path_validation.rs, install pipeline).     *)
(***************************************************************************)
\* most entries of one archive
MaxEntries == 2

EtcDir == <<"e", "t", "c">>
Passwd == <<"p", "a", "s", "s", "w", "d">>

\* the archive entry name ../../etc/passwd
EvilEntry == DotDotSlash \o DotDotSlash \o EtcDir \o <<Slash>> \o Passwd

\* entry names an archive may carry
EntryNames ==
    { EvilEntry,
      <<"f">>,
      <<"s", Slash, "f">>,
      <<Slash, "f">>,
      <<"s", Slash, Dot, Dot, Slash, "f">>,
      <<Dot, Slash, "g">> }

\* install base directories
InstallBases ==
    { module_install_path(<<"a", At, "a">>),
      module_install_path(<<"a", At, Dot>>),
      <<RootDir, EtcDir>>,
      <<RootDir>> }

\* the path an entry resolves to below base
ResolvedEntry(base, entry) == Resolve(<<>>, PathJoin(base, entry))

HasParentSegment(entry) == \E i \in 1..Len(Components(entry)) : Components(entry)[i] = DotDot

IsStrictDescendant(p, base) == IsPrefix(base, p) /\ Len(p) > Len(base)

validate_resolved_path_only(base, entry) ==
    IsStrictDescendant(ResolvedEntry(base, entry), base)

\* validate_extraction_path(base, entry): TRUE when the entry is accepted
validate_extraction_path(base, entry) ==
    /\ ~IsAbsolute(entry)
    /\ ~HasParentSegment(entry)
    /\ IsStrictDescendant(ResolvedEntry(base, entry), base)

VARIABLES xbase, archive, xnext, written, written_entries, xpc

extractVars == <<xbase, archive, xnext, written, written_entries, xpc>>

ExtractIdle ==
    /\ xbase = <<>>
    /\ archive = <<>>
    /\ xnext = 1
    /\ written = {}
    /\ written_entries = {}
    /\ xpc = "off"

ExtractInit ==
    /\ xbase \in InstallBases
    /\ archive \in StringsUpTo(EntryNames, MaxEntries)
    /\ xnext = 1
    /\ written = {}
    /\ written_entries = {}
    /\ xpc = "extracting"

\* one entry of the archive: guard first, then the write
ExtractEntry ==
    /\ xpc = "extracting"
    /\ xnext <= Len(archive)
    /\ validate_extraction_path(xbase, archive[xnext])
    /\ written' = written \cup {ResolvedEntry(xbase, archive[xnext])}
    /\ written_entries' = written_entries \cup {archive[xnext]}
    /\ xnext' = xnext + 1
    /\ UNCHANGED <<xbase, archive, xpc>>

\* a rejected entry aborts the extraction and removes what was written
ExtractAbort ==
    /\ xpc = "extracting"
    /\ xnext <= Len(archive)
    /\ ~validate_extraction_path(xbase, archive[xnext])
    /\ written' = {}
    /\ xpc' = "aborted"
    /\ UNCHANGED <<xbase, archive, xnext, written_entries>>

ExtractFinish ==
    /\ xpc = "extracting"
    /\ xnext > Len(archive)
    /\ xpc' = "done"
    /\ UNCHANGED <<xbase, archive, xnext, written, written_entries>>

(***************************************************************************)
(* Registry payload mapping (api.rs).  An Option is a sequence of length   *)
(* at most one, so Option<Option<T>> nests and flatten() takes its head.   *)
(***************************************************************************)
\* most module entries of one payload
MaxModules == 2

None == <<>>

Some(x) == <<x>>

\* Option::flatten
Flatten(o) == IF o = None THEN None ELSE o[1]

DigitChars == <<"0", "1", "2", "3", "4", "5", "6", "7", "8", "9">>

IsDigit(c) == \E i \in 1..Len(DigitChars) : DigitChars[i] = c

DigitValue(c) == (CHOOSE i \in 1..Len(DigitChars) : DigitChars[i] = c) - 1

AllDigits(s) == s # <<>> /\ \A i \in 1..Len(s) : IsDigit(s[i])

RECURSIVE NumberValue(_)
NumberValue(s) ==
    IF s = <<>> THEN 0
    ELSE 10 * NumberValue(SubSeq(s, 1, Len(s) - 1)) + DigitValue(s[Len(s)])

\* a semver numeric identifier: digits, no leading zero
IsNumericIdentifier(s) == AllDigits(s) /\ (Len(s) > 1 => s[1] # "0")

\* ModuleVersion::try_from(&str): semver::Version::parse, MAJOR.MINOR.PATCH
parse_module_version(s) ==
    LET parts == SplitAt(s, Dot)
    IN  IF Len(parts) = 3 /\ \A i \in 1..3 : IsNumericIdentifier(parts[i])
        THEN [ok |-> TRUE, err |-> "", v |-> <<NumberValue(parts[1]), NumberValue(parts[2]), NumberValue(parts[3])>>]
        ELSE [ok |-> FALSE, err |-> "invalid module version", v |-> <<>>]

TwoDigits(s, i) == 10 * DigitValue(s[i]) + DigitValue(s[i + 1])

\* chrono::DateTime::parse_from_rfc3339 on the form YYYY-MM-DDTHH:MM:SSZ
IsRfc3339(s) ==
    /\ Len(s) = 20
    /\ \A i \in {1, 2, 3, 4, 6, 7, 9, 10, 12, 13, 15, 16, 18, 19} : IsDigit(s[i])
    /\ s[5] = "-" /\ s[8] = "-" /\ s[11] = "T" /\ s[14] = ":" /\ s[17] = ":" /\ s[20] = "Z"
    /\ TwoDigits(s, 6) \in 1..12
    /\ TwoDigits(s, 9) \in 1..31
    /\ TwoDigits(s, 12) \in 0..23
    /\ TwoDigits(s, 15) \in 0..59
    /\ TwoDigits(s, 18) \in 0..59

\* parse_optional_timestamp(Option<String>)
parse_optional_timestamp(o) ==
    IF o = None THEN [ok |-> TRUE, err |-> "", v |-> None]
    ELSE IF IsRfc3339(o[1]) THEN [ok |-> TRUE, err |-> "", v |-> Some(o[1])]
    ELSE [ok |-> FALSE, err |-> "invalid last_updated timestamp", v |-> None]

\* parse_u64(i64, field)
parse_u64(n, field) ==
    IF n < 0 THEN [ok |-> FALSE, err |-> field \o " must be non-negative", v |-> 0]
    ELSE [ok |-> TRUE, err |-> "", v |-> n]

\* parse_u32(i32, field)
parse_u32(n, field) ==
    IF n < 0 THEN [ok |-> FALSE, err |-> field \o " must be non-negative", v |-> 0]
    ELSE [ok |-> TRUE, err |-> "", v |-> n]

NoModule == [uuid |-> UuidErr(""), version |-> None, last_updated |-> None, downloads |-> 0]

ModuleErr(e) == [ok |-> FALSE, err |-> e, module |-> NoModule]

\* map_registry_module(api)
map_registry_module(api) ==
    LET uuid == try_from(api.uuid)
        version == Flatten(api.version)
        pversion == IF version = None THEN [ok |-> TRUE, err |-> "", v |-> <<>>]
                    ELSE parse_module_version(version[1])
        last_updated == parse_optional_timestamp(Flatten(api.last_updated))
        downloads == parse_u64(api.downloads, "downloads")
    IN  IF ~uuid.ok THEN ModuleErr("invalid module uuid")
        ELSE IF ~pversion.ok THEN ModuleErr(pversion.err)
        ELSE IF ~last_updated.ok THEN ModuleErr(last_updated.err)
        ELSE IF ~downloads.ok THEN ModuleErr(downloads.err)
        ELSE [ok |-> TRUE, err |-> "",
              module |-> [uuid |-> uuid,
                          version |-> IF version = None THEN None ELSE Some(pversion.v),
                          last_updated |-> last_updated.v,
                          downloads |-> downloads.v]]

NoIndex == [version |-> 0, modules |-> <<>>]

IndexErr(e) == [ok |-> FALSE, err |-> e, index |-> NoIndex]

RECURSIVE CollectModules(_)
\* .map(map_registry_module).collect::<Result<Vec<_>, _>>(): the first error ends it
CollectModules(apis) ==
    IF apis = <<>> THEN [ok |-> TRUE, err |-> "", modules |-> <<>>]
    ELSE LET m == map_registry_module(Head(apis))
         IN  IF ~m.ok THEN [ok |-> FALSE, err |-> m.err, modules |-> <<>>]
             ELSE LET rest == CollectModules(Tail(apis))
                  IN  IF ~rest.ok THEN rest
                      ELSE [ok |-> TRUE, err |-> "", modules |-> <<m.module>> \o rest.modules]

RECURSIVE CollectValidModules(_)
CollectValidModules(apis) ==
    IF apis = <<>> THEN <<>>
    ELSE LET m == map_registry_module(Head(apis))
         IN  IF m.ok THEN <<m.module>> \o CollectValidModules(Tail(apis))
             ELSE CollectValidModules(Tail(apis))

map_registry_index_dropping_bad(api) ==
    LET version == parse_u32(api.version, "registry version")
    IN  IF ~version.ok THEN IndexErr(version.err)
        ELSE [ok |-> TRUE, err |-> "",
              index |-> [version |-> version.v, modules |-> CollectValidModules(api.modules)]]

\* map_registry_index(api)
map_registry_index(api) ==
    LET modules == CollectModules(api.modules)
        version == parse_u32(api.version, "registry version")
    IN  IF ~modules.ok THEN IndexErr(modules.err)
        ELSE IF ~version.ok THEN IndexErr(version.err)
        ELSE [ok |-> TRUE, err |-> "", index |-> [version |-> version.v, modules |-> modules.modules]]

\* payload values
WeatherUuid == <<"w", At, "b">>
InvalidUuid == <<"w", "b">>
Version123 == <<"1", Dot, "2", Dot, "3">>
NotAVersion == <<"n", "o", "t">>
Timestamp2025 ==
    <<"2", "0", "2", "5", "-", "0", "1", "-", "0", "1", "T", "0", "0", ":", "0", "0", ":", "0", "0", "Z">>
BadTimestamp ==
    <<"2", "0", "2", "5", "-", "1", "3", "-", "0", "1", "T", "0", "0", ":", "0", "0", ":", "0", "0", "Z">>

ApiModules ==
    [uuid : {WeatherUuid, InvalidUuid},
     version : {Some(None), Some(Some(Version123)), Some(Some(NotAVersion))},
     last_updated : {None, Some(Some(Timestamp2025)), Some(Some(BadTimestamp))},
     downloads : {-5, 42}]

ApiIndexes == [version : {-1, 1}, modules : StringsUpTo(ApiModules, MaxModules)]

VARIABLES payload, mapped, mpc

mapVars == <<payload, mapped, mpc>>

MapIdle ==
    /\ payload = [version |-> 0, modules |-> <<>>]
    /\ mapped = IndexErr("")
    /\ mpc = "off"

MapInit ==
    /\ payload \in ApiIndexes
    /\ mapped = IndexErr("")
    /\ mpc = "payload"

\* api::map_registry_index(payload)
MapRegistryIndex ==
    /\ mpc = "payload"
    /\ mapped' = map_registry_index(payload)
    /\ mpc' = "mapped"
    /\ UNCHANGED payload

(***************************************************************************)
(* Registry cache tasks (tasks/registry.rs) and the handlers that start    *)
(* them (app/handlers/system.rs).  A task advances one awaited call at a   *)
(* time; tasks started by different messages interleave at those points.   *)
(* Tasks carry no identity, so the tasks in flight form a bag.             *)
(***************************************************************************)
\* most registry tasks in flight at once
MaxTasks == 2

\* most notifications queued at once
MaxNotifications == 1

\* ---- the cache file and its JSON form ----
\* impl Serialize for ModuleUuid: the uuid is written as its Display string
SerializeModule(m) ==
    [uuid |-> to_string(m.uuid), version |-> m.version,
     last_updated |-> m.last_updated, downloads |-> m.downloads]

\* serde_json::to_string_pretty(&RegistryIndex)
to_string_pretty(index) ==
    [json |-> TRUE, version |-> index.version,
     modules |-> [i \in 1..Len(index.modules) |-> SerializeModule(index.modules[i])]]

\* file content that is no JSON document
Garbage == [json |-> FALSE, version |-> 0, modules |-> <<>>]

\* serde_json::from_str::<RegistryIndex>(content); impl Deserialize for
\* ModuleUuid parses the string with try_from
from_str(content) ==
    IF ~content.json THEN IndexErr("expected value")
    ELSE IF \E i \in 1..Len(content.modules) : ~try_from(content.modules[i].uuid).ok
    THEN IndexErr("invalid uuid")
    ELSE IF content.version < 0 \/ \E i \in 1..Len(content.modules) : content.modules[i].downloads < 0
    THEN IndexErr("invalid value")
    ELSE [ok |-> TRUE, err |-> "",
          index |-> [version |-> content.version,
                     modules |-> [i \in 1..Len(content.modules) |->
                                     [uuid |-> try_from(content.modules[i].uuid),
                                      version |-> content.modules[i].version,
                                      last_updated |-> content.modules[i].last_updated,
                                      downloads |-> content.modules[i].downloads]]]]

AbsentFile == [exists |-> FALSE, content |-> Garbage]

FileWith(content) == [exists |-> TRUE, content |-> content]

\* ---- what the registry may answer ----
GoodEntry ==
    [uuid |-> WeatherUuid, version |-> Some(Some(Version123)),
     last_updated |-> Some(Some(Timestamp2025)), downloads |-> 42]

NegativeEntry == [GoodEntry EXCEPT !.downloads = -5]

OldEntry == [uuid |-> <<"c", At, "b">>, version |-> Some(None), last_updated |-> None, downloads |-> 7]

PayloadGood == [version |-> 2, modules |-> <<GoodEntry>>]

PayloadBad == [version |-> 2, modules |-> <<GoodEntry, NegativeEntry>>]

PayloadOld == [version |-> 1, modules |-> <<OldEntry>>]

NetError == [version |-> -1, modules |-> <<>>]

\* outcomes of GET /api/v1/index: a payload, or a transport / status error
NetResponses == {PayloadGood, PayloadBad, NetError}

\* what the cache file may hold when the application starts
InitialCaches ==
    { AbsentFile,
      FileWith(Garbage),
      FileWith([json |-> TRUE, version |-> 1,
                modules |-> <<[uuid |-> InvalidUuid, version |-> None, last_updated |-> None, downloads |-> 7]>>]),
      FileWith(to_string_pretty(map_registry_index(PayloadOld).index)) }

\* ---- one task ----
Pending == IndexErr("pending")

OkIndex(index) == [ok |-> TRUE, err |-> "", index |-> index]

NoTask ==
    [kind |-> "none", pc |-> "none", seen |-> AbsentFile, hit |-> FALSE,
     response |-> NetError, index |-> NoIndex, result |-> Pending,
     removes |-> 0, requests |-> 0, writes |-> 0, dir |-> "none", persist |-> "none"]

\* load_registry(): Task::perform(fetch_registry_async(), RegistryLoaded)
load_registry == [NoTask EXCEPT !.kind = "load", !.pc = "read"]

refresh_registry_without_remove == [NoTask EXCEPT !.kind = "refresh", !.pc = "request"]

\* refresh_registry(): Task::perform(refresh_registry_async(), RegistryRefreshed)
refresh_registry == [NoTask EXCEPT !.kind = "refresh", !.pc = "remove"]

fetch_read_ignoring_cache(task, file) == [task EXCEPT !.pc = "request", !.seen = file]

\* fetch_registry_async, the cache read: a readable, parsable cache is returned
fetch_read(task, file) ==
    LET index == IF file.exists THEN from_str(file.content) ELSE IndexErr("not found")
    IN  IF index.ok
        THEN [task EXCEPT !.pc = "done", !.seen = file, !.hit = TRUE, !.result = OkIndex(index.index)]
        ELSE [task EXCEPT !.pc = "request", !.seen = file]

\* refresh_registry_async, remove_file: its error is logged and dropped
refresh_remove(task, file) ==
    [task EXCEPT !.pc = "request", !.seen = file, !.removes = @ + 1]

\* api_v1_index_get and map_registry_index: either error ends the task
fetch_response(task, response) ==
    LET index == map_registry_index(response)
    IN  IF response = NetError
        THEN [task EXCEPT !.pc = "done", !.requests = @ + 1, !.result = IndexErr("Network error")]
        ELSE IF ~index.ok
        THEN [task EXCEPT !.pc = "done", !.requests = @ + 1, !.response = response,
                          !.result = IndexErr("Invalid registry data")]
        ELSE [task EXCEPT !.pc = "mkdir", !.requests = @ + 1, !.response = response,
                          !.index = index.index]

\* create_dir_all(parent): a failure is logged
create_cache_dir(task, ok) ==
    [task EXCEPT !.pc = "write", !.dir = IF ok THEN "created" ELSE "failed"]

write_cache_propagating(task, ok) ==
    [task EXCEPT !.pc = "done", !.writes = @ + 1,
                 !.persist = IF ok THEN "written" ELSE "failed",
                 !.result = IF ok THEN OkIndex(task.index) ELSE IndexErr("Failed to write registry cache")]

\* fs::write(cache_path, content): a failure is logged; the index is returned
write_cache(task, ok) ==
    [task EXCEPT !.pc = "done", !.writes = @ + 1,
                 !.persist = IF ok THEN "written" ELSE "failed",
                 !.result = OkIndex(task.index)]

VARIABLES cache, tasks, browse_refreshing, screen, notifications

registryVars == <<cache, tasks>>

\* Screen: Browse, Installed, Updates, or ModuleDetail(uuid string)
ScreenOf(tag) == [tag |-> tag, uuid |-> <<>>]

ModuleDetail(uuid_str) == [tag |-> "ModuleDetail", uuid |-> uuid_str]

\* the tasks in flight, each once
InFlight == BagToSet(tasks)

\* the executor takes one more task
Spawn(task) == tasks (+) SetToBag({task})

\* one task in flight takes a step
Step(task, after) == (tasks (-) SetToBag({task})) (+) SetToBag({after})

\* App::push_notification
push_notification(kind) == Append(notifications, kind)

RegistryIdle ==
    /\ cache = AbsentFile
    /\ tasks = EmptyBag

RegistryInit ==
    /\ cache \in InitialCaches
    /\ tasks = EmptyBag

\* handle_refresh_registry
handle_refresh_registry ==
    /\ BagCardinality(tasks) < MaxTasks
    /\ browse_refreshing' = TRUE
    /\ tasks' = Spawn(refresh_registry)
    /\ UNCHANGED <<cache, screen, notifications>>

\* handle_tray_check_updates
handle_tray_check_updates ==
    /\ BagCardinality(tasks) < MaxTasks
    /\ Len(notifications) < MaxNotifications
    /\ screen' = ScreenOf("Updates")
    /\ notifications' = push_notification("Info")
    /\ tasks' = Spawn(load_registry)
    /\ UNCHANGED <<cache, browse_refreshing>>

\* fetch_registry_async: read_to_string(cache_path) and from_str
LoadRead(task) ==
    /\ task.kind = "load" /\ task.pc = "read"
    /\ tasks' = Step(task, fetch_read(task, cache))
    /\ UNCHANGED <<cache, browse_refreshing, screen, notifications>>

\* refresh_registry_async: remove_file(cache_path)
RefreshRemove(task) ==
    /\ task.kind = "refresh" /\ task.pc = "remove"
    /\ tasks' = Step(task, refresh_remove(task, cache))
    /\ cache' = AbsentFile
    /\ UNCHANGED <<browse_refreshing, screen, notifications>>

\* api_v1_index_get(&config).await, then map_registry_index
NetworkFetch(task) ==
    /\ task.pc = "request"
    /\ \E response \in NetResponses : tasks' = Step(task, fetch_response(task, response))
    /\ UNCHANGED <<cache, browse_refreshing, screen, notifications>>

\* create_dir_all(parent).await
CreateCacheDir(task) ==
    /\ task.pc = "mkdir"
    /\ \E ok \in BOOLEAN : tasks' = Step(task, create_cache_dir(task, ok))
    /\ UNCHANGED <<cache, browse_refreshing, screen, notifications>>

\* fs::write(cache_path, content).await: written, or failed with the file
\* left as it was or left truncated
WriteCache(task) ==
    /\ task.pc = "write"
    /\ \/ /\ tasks' = Step(task, write_cache(task, TRUE))
          /\ cache' = FileWith(to_string_pretty(task.index))
       \/ /\ tasks' = Step(task, write_cache(task, FALSE))
          /\ cache' \in {cache, FileWith(Garbage)}
    /\ UNCHANGED <<browse_refreshing, screen, notifications>>

\* the task's future resolves: its result is posted as RegistryLoaded or
\* RegistryRefreshed and the task is no longer in flight
TaskCompleted(task) ==
    /\ task.pc = "done"
    /\ tasks' = tasks (-) SetToBag({task})
    /\ UNCHANGED <<cache, browse_refreshing, screen, notifications>>

(***************************************************************************)
(* Confirmation, uninstall and notification handlers                       *)
(* (app/handlers/system.rs).                                               *)
(***************************************************************************)
\* most uninstall tasks in flight for one uuid
MaxUninstalls == 2

\* the installed modules a confirmation can name
AppUuidStrings == {<<"a", At, "a">>, <<"b", At, "a">>}

AppUuids == {try_from(u) : u \in AppUuidStrings}

\* ConfirmationAction::UninstallModule { uuid, .. }
UninstallModule(uuid) == [action |-> "UninstallModule", uuid |-> uuid]

NotificationKinds == {"Info", "Success", "Error"}

VARIABLES pending_action, uninstalling, uninstall_tasks, module_detail

confirmVars == <<pending_action, uninstalling, uninstall_tasks, module_detail>>

appVars == <<browse_refreshing, screen, notifications>>

Screens == {ScreenOf("Browse"), ScreenOf("Installed"), ScreenOf("Updates")}
              \cup {ModuleDetail(u) : u \in AppUuidStrings}

ConfirmIdle ==
    /\ pending_action = None
    /\ uninstalling = {}
    /\ uninstall_tasks = [u \in AppUuids |-> 0]
    /\ module_detail = [installing |-> FALSE, screenshot |-> "NotLoaded"]

AppIdle ==
    /\ browse_refreshing = FALSE
    /\ screen = ScreenOf("Browse")
    /\ notifications = <<>>

ConfirmInit ==
    /\ pending_action = None
    /\ uninstalling = {}
    /\ uninstall_tasks = [u \in AppUuids |-> 0]
    /\ browse_refreshing = FALSE
    /\ screen \in Screens
    /\ module_detail \in [installing : {FALSE},
                          screenshot : IF screen.tag = "ModuleDetail" THEN {"Loading", "Loaded"}
                                       ELSE {"NotLoaded"}]
    /\ notifications = <<>>

\* handle_show_notification
handle_show_notification(kind) ==
    /\ Len(notifications) < MaxNotifications
    /\ notifications' = push_notification(kind)
    /\ UNCHANGED <<confirmVars, browse_refreshing, screen>>

\* handle_dismiss_notification
handle_dismiss_notification ==
    /\ IF pending_action # None
       THEN /\ pending_action' = None
            /\ UNCHANGED <<screen, module_detail, notifications>>
       ELSE IF screen.tag = "ModuleDetail"
       THEN /\ screen' = ScreenOf("Browse")
            /\ module_detail' = [installing |-> FALSE, screenshot |-> "NotLoaded"]
            /\ UNCHANGED <<pending_action, notifications>>
       ELSE /\ notifications' = IF notifications = <<>> THEN <<>> ELSE Tail(notifications)
            /\ UNCHANGED <<pending_action, screen, module_detail>>
    /\ UNCHANGED <<uninstalling, uninstall_tasks, browse_refreshing>>

\* handle_request_confirmation
handle_request_confirmation(action) ==
    /\ pending_action' = Some(action)
    /\ UNCHANGED <<uninstalling, uninstall_tasks, module_detail, appVars>>

confirm_action_keeping_pending(pending, in_flight, running) ==
    IF pending # None
    THEN [pending |-> pending,
          uninstalling |-> in_flight \cup {pending[1].uuid},
          tasks |-> [running EXCEPT ![pending[1].uuid] = @ + 1]]
    ELSE [pending |-> pending, uninstalling |-> in_flight, tasks |-> running]

\* the effect of handle_confirm_action on (pending_action, uninstalling,
\* uninstall_tasks): tasks::uninstall_module(uuid) puts one more task in flight
confirm_action(pending, in_flight, running) ==
    IF pending # None
    THEN [pending |-> None,
          uninstalling |-> in_flight \cup {pending[1].uuid},
          tasks |-> [running EXCEPT ![pending[1].uuid] = @ + 1]]
    ELSE [pending |-> pending, uninstalling |-> in_flight, tasks |-> running]

\* handle_confirm_action
handle_confirm_action ==
    /\ pending_action # None => uninstall_tasks[pending_action[1].uuid] < MaxUninstalls
    /\ LET after == confirm_action(pending_action, uninstalling, uninstall_tasks)
       IN  /\ pending_action' = after.pending
           /\ uninstalling' = after.uninstalling
           /\ uninstall_tasks' = after.tasks
    /\ UNCHANGED <<module_detail, appVars>>

\* handle_cancel_confirmation
handle_cancel_confirmation ==
    /\ pending_action' = None
    /\ UNCHANGED <<uninstalling, uninstall_tasks, module_detail, appVars>>

\* handle_detail_install_module
handle_detail_install_module ==
    /\ IF screen.tag = "ModuleDetail" /\ try_from(screen.uuid).ok
       THEN module_detail' = [module_detail EXCEPT !.installing = TRUE]
       ELSE UNCHANGED module_detail
    /\ UNCHANGED <<pending_action, uninstalling, uninstall_tasks, appVars>>

\* an uninstall task ends and its result is handled: the uuid leaves the
\* in-flight set
UninstallCompleted(uuid) ==
    /\ uninstall_tasks[uuid] > 0
    /\ uninstall_tasks' = [uninstall_tasks EXCEPT ![uuid] = @ - 1]
    /\ uninstalling' = uninstalling \ {uuid}
    /\ UNCHANGED <<pending_action, module_detail, appVars>>

(***************************************************************************)
(* The bar configuration (services/waybar_config.rs).  A config text is    *)
(* what the file holds: the kind of its top-level value, whether it is     *)
(* hand-written JSONC (comments, free layout) or the output of             *)
(* to_string_pretty, and the members of the object in the order they are   *)
(* written, a key possibly more than once.  Parsing builds a               *)
(* serde_json::Map from it; serialising writes the map back in map order.  *)
(***************************************************************************)
\* most array items of an initial config, all its section arrays together
MaxItems == 2

BarSections == {"Left", "Center", "Right"}

\* BarSection::array_key
array_key(section) ==
    CASE section = "Left" -> "modules-left"
      [] section = "Center" -> "modules-center"
      [] OTHER -> "modules-right"

\* the keys remove_module visits, in its order
SectionKeys == <<"modules-left", "modules-center", "modules-right">>

ModuleNames == {"clock", "custom/weather"}

\* serde_json::Value::String
JString(s) == [t |-> "string", s |-> s]

\* a JSON value that is not a string
JNumber == [t |-> "number", s |-> "1"]

\* serde_json::Value::Array
JArray(items) == [array |-> TRUE, items |-> items]

\* a member value that is not an array, such as "layer": "top"
JScalar == [array |-> FALSE, items |-> <<>>]

Member(key, val) == [key |-> key, val |-> val]

ObjectText(raw, members) == [kind |-> "object", raw |-> raw, members |-> members]

\* a file that holds nothing but whitespace and comments
EmptyText == [kind |-> "empty", raw |-> TRUE, members |-> <<>>]

\* a file that is not JSONC
InvalidText == [kind |-> "invalid", raw |-> TRUE, members |-> <<>>]

\* a file whose top-level value is an array
ArrayText == [kind |-> "array", raw |-> TRUE, members |-> <<>>]

\* whether serde_json is built with its preserve_order feature: the map is an
\* IndexMap (insertion order) when it is, a BTreeMap (key order) when not
VARIABLE preserve_order

\* the order of the keys as strings
KeyRank(key) ==
    CASE key = "layer" -> 1
      [] key = "modules-center" -> 2
      [] key = "modules-left" -> 3
      [] OTHER -> 4

HasKey(obj, key) == \E i \in 1..Len(obj) : obj[i].key = key

KeyIndex(obj, key) == CHOOSE i \in 1..Len(obj) : obj[i].key = key

RECURSIVE SortedInsert(_, _)
SortedInsert(obj, member) ==
    IF obj = <<>> THEN <<member>>
    ELSE IF KeyRank(member.key) < KeyRank(Head(obj).key) THEN <<member>> \o obj
    ELSE <<Head(obj)>> \o SortedInsert(Tail(obj), member)

\* serde_json::Map::insert: a key already in the map keeps its place and takes
\* the new value
MapInsert(obj, key, val) ==
    IF HasKey(obj, key) THEN [obj EXCEPT ![KeyIndex(obj, key)].val = val]
    ELSE IF preserve_order THEN Append(obj, Member(key, val))
    ELSE SortedInsert(obj, Member(key, val))

RECURSIVE CollectMembers(_, _)
CollectMembers(obj, members) ==
    IF members = <<>> THEN obj
    ELSE CollectMembers(MapInsert(obj, Head(members).key, Head(members).val), Tail(members))

\* jsonc_parser::parse_to_serde_value: Err, Ok(None) or Ok(Some(value))
parse_to_serde_value(content) ==
    [ok |-> content.kind # "invalid",
     some |-> content.kind \in {"object", "array"},
     object |-> content.kind = "object",
     map |-> IF content.kind = "object" THEN CollectMembers(<<>>, content.members) ELSE <<>>]

\* serde_json::to_string_pretty(&Value::Object(obj))
value_to_string_pretty(obj) == ObjectText(FALSE, obj)

ConfigErr(msg) == [ok |-> FALSE, err |-> msg, content |-> EmptyText]

ConfigOk(content) == [ok |-> TRUE, err |-> "", content |-> content]

\* arr.contains(&module_value)
ArrayContains(items, module_name) == \E i \in 1..Len(items) : items[i] = JString(module_name)

RECURSIVE Retain(_, _)
\* arr.retain(|v| v.as_str() != Some(module_name))
Retain(items, module_name) ==
    IF items = <<>> THEN <<>>
    ELSE IF Head(items).t = "string" /\ Head(items).s = module_name
         THEN Retain(Tail(items), module_name)
    ELSE <<Head(items)>> \o Retain(Tail(items), module_name)

add_module_always_pushing(content, module_name, section) ==
    LET key == array_key(section)
        parsed_value == parse_to_serde_value(content)
        obj == IF HasKey(parsed_value.map, key) THEN parsed_value.map
               ELSE MapInsert(parsed_value.map, key, JArray(<<>>))
        modules_array == obj[KeyIndex(obj, key)].val
        arr == Append(modules_array.items, JString(module_name))
    IN  IF ~parsed_value.ok THEN ConfigErr("Failed to parse waybar config")
        ELSE IF ~parsed_value.some THEN ConfigErr("Empty waybar config")
        ELSE IF ~parsed_value.object THEN ConfigErr("Waybar config is not a JSON object")
        ELSE IF ~modules_array.array THEN ConfigErr("is not an array")
        ELSE ConfigOk(value_to_string_pretty([obj EXCEPT ![KeyIndex(obj, key)].val = JArray(arr)]))

add_module_creating_empty(content, module_name, section) ==
    LET key == array_key(section)
        parsed_value == parse_to_serde_value(content)
        obj == IF HasKey(parsed_value.map, key) THEN parsed_value.map
               ELSE MapInsert(parsed_value.map, key, JArray(<<>>))
        modules_array == obj[KeyIndex(obj, key)].val
        arr == IF ArrayContains(modules_array.items, module_name) \/ ~HasKey(parsed_value.map, key)
               THEN modules_array.items
               ELSE Append(modules_array.items, JString(module_name))
    IN  IF ~parsed_value.ok THEN ConfigErr("Failed to parse waybar config")
        ELSE IF ~parsed_value.some THEN ConfigErr("Empty waybar config")
        ELSE IF ~parsed_value.object THEN ConfigErr("Waybar config is not a JSON object")
        ELSE IF ~modules_array.array THEN ConfigErr("is not an array")
        ELSE ConfigOk(value_to_string_pretty([obj EXCEPT ![KeyIndex(obj, key)].val = JArray(arr)]))

add_module_prepending(content, module_name, section) ==
    LET key == array_key(section)
        parsed_value == parse_to_serde_value(content)
        obj == IF HasKey(parsed_value.map, key) THEN parsed_value.map
               ELSE MapInsert(parsed_value.map, key, JArray(<<>>))
        modules_array == obj[KeyIndex(obj, key)].val
        arr == IF ArrayContains(modules_array.items, module_name)
               THEN modules_array.items
               ELSE <<JString(module_name)>> \o modules_array.items
    IN  IF ~parsed_value.ok THEN ConfigErr("Failed to parse waybar config")
        ELSE IF ~parsed_value.some THEN ConfigErr("Empty waybar config")
        ELSE IF ~parsed_value.object THEN ConfigErr("Waybar config is not a JSON object")
        ELSE IF ~modules_array.array THEN ConfigErr("is not an array")
        ELSE ConfigOk(value_to_string_pretty([obj EXCEPT ![KeyIndex(obj, key)].val = JArray(arr)]))

\* add_module(content, module_name, section)
add_module(content, module_name, section) ==
    LET key == array_key(section)
        parsed_value == parse_to_serde_value(content)
        \* obj.entry(array_key).or_insert_with(|| Value::Array(Vec::new()))
        obj == IF HasKey(parsed_value.map, key) THEN parsed_value.map
               ELSE MapInsert(parsed_value.map, key, JArray(<<>>))
        modules_array == obj[KeyIndex(obj, key)].val
        arr == IF ArrayContains(modules_array.items, module_name)
               THEN modules_array.items
               ELSE Append(modules_array.items, JString(module_name))
    IN  IF ~parsed_value.ok THEN ConfigErr("Failed to parse waybar config")
        ELSE IF ~parsed_value.some THEN ConfigErr("Empty waybar config")
        ELSE IF ~parsed_value.object THEN ConfigErr("Waybar config is not a JSON object")
        ELSE IF ~modules_array.array THEN ConfigErr("is not an array")
        ELSE ConfigOk(value_to_string_pretty([obj EXCEPT ![KeyIndex(obj, key)].val = JArray(arr)]))

RECURSIVE RemoveFromSections(_, _, _)
\* the loop of remove_module over the section keys
RemoveFromSections(obj, keys, module_name) ==
    IF keys = <<>> THEN obj
    ELSE LET key == Head(keys)
             next == IF HasKey(obj, key) /\ obj[KeyIndex(obj, key)].val.array
                     THEN [obj EXCEPT ![KeyIndex(obj, key)].val.items = Retain(@, module_name)]
                     ELSE obj
         IN  RemoveFromSections(next, Tail(keys), module_name)

RECURSIVE RemoveFromFirstSection(_, _, _)
RemoveFromFirstSection(obj, keys, module_name) ==
    IF keys = <<>> THEN obj
    ELSE LET key == Head(keys)
         IN  IF HasKey(obj, key) /\ obj[KeyIndex(obj, key)].val.array
                  /\ ArrayContains(obj[KeyIndex(obj, key)].val.items, module_name)
             THEN [obj EXCEPT ![KeyIndex(obj, key)].val.items = Retain(@, module_name)]
             ELSE RemoveFromFirstSection(obj, Tail(keys), module_name)

remove_module_first_section_only(content, module_name) ==
    LET parsed_value == parse_to_serde_value(content)
    IN  IF ~parsed_value.ok THEN ConfigErr("Failed to parse waybar config")
        ELSE IF ~parsed_value.some THEN ConfigErr("Empty waybar config")
        ELSE IF ~parsed_value.object THEN ConfigErr("Waybar config is not a JSON object")
        ELSE ConfigOk(value_to_string_pretty(
                 RemoveFromFirstSection(parsed_value.map, SectionKeys, module_name)))

\* remove_module(content, module_name)
remove_module(content, module_name) ==
    LET parsed_value == parse_to_serde_value(content)
    IN  IF ~parsed_value.ok THEN ConfigErr("Failed to parse waybar config")
        ELSE IF ~parsed_value.some THEN ConfigErr("Empty waybar config")
        ELSE IF ~parsed_value.object THEN ConfigErr("Waybar config is not a JSON object")
        ELSE ConfigOk(value_to_string_pretty(
                 RemoveFromSections(parsed_value.map, SectionKeys, module_name)))

(***************************************************************************)
(* State of the configuration specification: the config text, the text     *)
(* before the last call, and the last call made on it (repeat: the call    *)
(* before it was the same call and returned Ok).                           *)
(***************************************************************************)
VARIABLES config, config_before, config_op

configVars == <<preserve_order, config, config_before, config_op>>

NoOp == [op |-> "none", module |-> "", section |-> "", ok |-> FALSE, err |-> "",
         repeat |-> FALSE]

ConfigOp(op, module_name, section, result) ==
    [op |-> op, module |-> module_name, section |-> section,
     ok |-> result.ok, err |-> result.err,
     repeat |-> /\ config_op.ok
                /\ config_op.op = op
                /\ config_op.module = module_name
                /\ config_op.section = section]

SectionKeySet == {SectionKeys[i] : i \in 1..Len(SectionKeys)}

\* the section arrays an initial config may hold
SampleArrays ==
    {JArray(items) : items \in StringsUpTo({JString(m) : m \in ModuleNames}, MaxItems)}


\* the two orders in which the initial configs list their section keys
KeyOrders == {SectionKeys, <<"modules-right", "modules-center", "modules-left">>}

RECURSIVE SectionMembers(_, _, _)
SectionMembers(order, present, vals) ==
    IF order = <<>> THEN <<>>
    ELSE (IF Head(order) \in present THEN <<Member(Head(order), vals[Head(order)])>> ELSE <<>>)
             \o SectionMembers(Tail(order), present, vals)

\* a hand-written object that names "modules-left" twice
DuplicateKeyText ==
    ObjectText(TRUE, <<Member("modules-left", JArray(<<JString("clock")>>)),
                       Member("layer", JScalar),
                       Member("modules-left", JArray(<<>>))>>)

\* a hand-written object with an array item that is not a string
NumberItemText ==
    ObjectText(TRUE, <<Member("modules-left", JArray(<<JNumber, JString("clock")>>)),
                       Member("modules-right", JArray(<<JString("clock"), JNumber>>))>>)

InitialConfigs ==
    {ObjectText(TRUE, <<Member("layer", JScalar)>> \o members) :
        members \in {SectionMembers(order, present, vals) :
                        order \in KeyOrders, present \in SUBSET SectionKeySet,
                        vals \in {v \in [SectionKeySet -> SampleArrays \cup {JScalar}] :
                                    Len(v["modules-left"].items) + Len(v["modules-center"].items)
                                        + Len(v["modules-right"].items) <= MaxItems}}}
        \cup {DuplicateKeyText, NumberItemText, EmptyText, InvalidText, ArrayText}

ConfigIdle ==
    /\ preserve_order = FALSE
    /\ config = EmptyText
    /\ config_before = EmptyText
    /\ config_op = NoOp

ConfigInit ==
    /\ preserve_order \in BOOLEAN
    /\ config \in InitialConfigs
    /\ config_before = config
    /\ config_op = NoOp

\* a call of add_module on the config text; the text it returns becomes the
\* config
AddModule(module_name, section) ==
    LET result == add_module(config, module_name, section)
    IN  /\ config_before' = config
        /\ config' = IF result.ok THEN result.content ELSE config
        /\ config_op' = ConfigOp("add", module_name, section, result)
        /\ UNCHANGED preserve_order

\* a call of remove_module on the config text
RemoveModule(module_name) ==
    LET result == remove_module(config, module_name)
    IN  /\ config_before' = config
        /\ config' = IF result.ok THEN result.content ELSE config
        /\ config_op' = ConfigOp("remove", module_name, "", result)
        /\ UNCHANGED preserve_order

(***************************************************************************)
(* CSS injection and removal (tasks/waybar.rs).  The stylesheet is a       *)
(* sequence of segments: the user's own CSS, and delimited blocks each     *)
(* keyed by the uuid of the module it was injected for.                    *)
(***************************************************************************)
\* most handle_css_injection / handle_css_removal calls in flight
MaxCssTasks == 2

\* most segments of an initial stylesheet
MaxSegments == 2

UserCss(css) == [block |-> FALSE, uuid |-> <<>>, css |-> css]

CssBlock(uuid, css) == [block |-> TRUE, uuid |-> uuid, css |-> css]

\* waybar_config::remove_module_css(existing_css, uuid)
remove_module_css(existing_css, uuid) ==
    SelectSeq(existing_css, LAMBDA seg : ~(seg.block /\ seg.uuid = uuid))

inject_module_css_appending(existing_css, uuid, module_css) ==
    Append(existing_css, CssBlock(uuid, module_css))

\* waybar_config::inject_module_css(existing_css, uuid, module_css)
inject_module_css(existing_css, uuid, module_css) ==
    Append(remove_module_css(existing_css, uuid), CssBlock(uuid, module_css))

\* the style.css a module ships, and the one an earlier version of it shipped
ModuleStyles == {"new"}

OldModuleStyle == "old"

\* the stylesheet file of the bar
AbsentStyle == [exists |-> FALSE, content |-> <<>>]

StyleFile(segments) == [exists |-> TRUE, content |-> segments]

\* the style.css in a module's install directory
NoModuleStyle == [exists |-> FALSE, content |-> ""]

ModuleStyle(css) == [exists |-> TRUE, content |-> css]

\* a call that has returned is no longer in flight
Returned == [kind |-> "none", uuid |-> <<>>, pc |-> "returned", module_css |-> "",
             existing_css |-> <<>>]

\* handle_css_injection(uuid, install_path) up to its read of the stylesheet:
\* css_path.exists() and read_to_string(&css_path); the call returns when the
\* module ships no style.css or the file cannot be read
handle_css_injection(uuid, file, readable) ==
    IF file.exists /\ readable
    THEN [Returned EXCEPT !.kind = "inject", !.uuid = uuid, !.pc = "read_style",
                          !.module_css = file.content]
    ELSE Returned

\* handle_css_removal(uuid), at its first await
handle_css_removal(uuid) ==
    [Returned EXCEPT !.kind = "remove", !.uuid = uuid, !.pc = "read_style"]

\* read_to_string(&waybar_style_path): unwrap_or_default() in the injection,
\* let-else return in the removal
css_read_style(task, file) ==
    IF task.kind = "inject"
    THEN LET existing_css == IF file.exists THEN file.content ELSE <<>>
         IN  [task EXCEPT !.pc = "write", !.existing_css = existing_css]
    ELSE IF file.exists
         THEN [task EXCEPT !.pc = "write", !.existing_css = file.content]
         ELSE Returned

\* the new_css the call computes from the stylesheet it read
new_css(task) ==
    IF task.kind = "inject"
    THEN inject_module_css(task.existing_css, task.uuid, task.module_css)
    ELSE remove_module_css(task.existing_css, task.uuid)

\* tokio::fs::write(&waybar_style_path, new_css): the file after the call; a
\* failed write, which is logged only, leaves the file as it was or truncated
css_write(task, file, outcome) ==
    CASE outcome = "ok" -> StyleFile(new_css(task))
      [] outcome = "truncated" -> StyleFile(<<>>)
      [] OTHER -> file

VARIABLES style, css_tasks

cssVars == <<style, css_tasks>>

CssInFlight == BagToSet(css_tasks)

\* one call in flight takes a step, or returns
CssStep(task, after) ==
    IF after = Returned THEN css_tasks (-) SetToBag({task})
    ELSE (css_tasks (-) SetToBag({task})) (+) SetToBag({after})

\* the stylesheets the bar may have before the first call: none, or the
\* user's CSS and the blocks of modules injected earlier, in any order
InitialStyles ==
    {AbsentStyle} \cup
    {StyleFile(segs) :
        segs \in {q \in StringsUpTo({UserCss("user")}
                                       \cup {CssBlock(u, OldModuleStyle) : u \in AppUuidStrings},
                                   MaxSegments) :
                    \A i, j \in 1..Len(q) : q[i] = q[j] => i = j}}

CssIdle ==
    /\ style = AbsentStyle
    /\ css_tasks = EmptyBag

CssInit ==
    /\ style \in InitialStyles
    /\ css_tasks = EmptyBag

CssSpawn(task) == IF task = Returned THEN css_tasks ELSE css_tasks (+) SetToBag({task})

\* the install pipeline calls handle_css_injection
CssInjectionStarted(uuid) ==
    /\ BagCardinality(css_tasks) < MaxCssTasks
    /\ \E file \in {NoModuleStyle} \cup {ModuleStyle(css) : css \in ModuleStyles},
          readable \in BOOLEAN :
          css_tasks' = CssSpawn(handle_css_injection(uuid, file, readable))
    /\ UNCHANGED style

\* the uninstall pipeline calls handle_css_removal
CssRemovalStarted(uuid) ==
    /\ BagCardinality(css_tasks) < MaxCssTasks
    /\ css_tasks' = CssSpawn(handle_css_removal(uuid))
    /\ UNCHANGED style

CssReadStyle(task) ==
    /\ task.pc = "read_style"
    /\ css_tasks' = CssStep(task, css_read_style(task, style))
    /\ UNCHANGED style

\* the write of the stylesheet, after which the call returns
CssWrite(task) ==
    /\ task.pc = "write"
    /\ \E outcome \in {"ok", "failed", "truncated"} : style' = css_write(task, style, outcome)
    /\ css_tasks' = CssStep(task, Returned)

(***************************************************************************)
(* The author profile and review fetches (tasks/registry.rs, api.rs) and   *)
(* the reload signal (services/waybar_config.rs).  Each call of the        *)
(* registry API ends in a response: a body, an error status               *)
(* (ApiError::ResponseError) or a failure below HTTP (any other ApiError). *)
(***************************************************************************)
\* most reviews in a reviews payload
MaxReviews == 1

\* the largest exit code the process-control call ends with
MaxExitCode == 3

ApiOk(body) == [kind |-> "Ok", status |-> 200, body |-> body]

\* ApiError::ResponseError with a status
ResponseError(status, nobody) == [kind |-> "ResponseError", status |-> status, body |-> nobody]

\* ApiError::Reqwest, ::Serde, ::Io
TransportError(nobody) == [kind |-> "Transport", status |-> 0, body |-> nobody]

ErrorResponses(nobody) ==
    {ResponseError(404, nobody), ResponseError(500, nobody), TransportError(nobody)}

\* ---- author profile ----
NoAuthor == [id |-> 0, username |-> "", module_count |-> 0]

\* bodies of GET /api/v1/users/{username}
ApiProfiles == [id : {-1, 42}, username : {"jane"}, module_count : {-1, 0}]

ProfileResponses == {ApiOk(p) : p \in ApiProfiles} \cup ErrorResponses(NoAuthor)

\* bodies of GET /api/v1/users/{username}/modules
AuthorModulesResponses ==
    {ApiOk(modules) : modules \in {<<>>, <<GoodEntry>>, <<GoodEntry, NegativeEntry>>}}
        \cup ErrorResponses(<<>>)

NoProfile == [author |-> NoAuthor, modules |-> <<>>]

ProfileErr(msg) == [ok |-> FALSE, err |-> msg, profile |-> NoProfile]

\* map_author_profile(profile, modules)
map_author_profile(profile, modules) ==
    LET id == parse_u64(profile.id, "author id")
        module_count == parse_u64(profile.module_count, "module count")
        mapped_modules == CollectModules(modules)
    IN  IF ~id.ok THEN ProfileErr(id.err)
        ELSE IF ~module_count.ok THEN ProfileErr(module_count.err)
        ELSE IF ~mapped_modules.ok THEN ProfileErr(mapped_modules.err)
        ELSE [ok |-> TRUE, err |-> "",
              profile |-> [author |-> [id |-> id.v, username |-> profile.username,
                                       module_count |-> module_count.v],
                           modules |-> mapped_modules.modules]]

\* a call of fetch_author_profile_with_config: where it is, the responses it
\* got, and its result
NoAuthorCall ==
    [pc |-> "off", profile |-> TransportError(NoAuthor), modules |-> TransportError(<<>>),
     result |-> ProfileErr("")]

\* the call after the response of api_v1_users_username_get
author_profile_response(call, response) ==
    IF response.kind = "Ok" THEN [call EXCEPT !.pc = "modules", !.profile = response]
    ELSE IF response.kind = "ResponseError" /\ response.status = 404
    THEN [call EXCEPT !.pc = "done", !.profile = response, !.result = ProfileErr("User not found")]
    ELSE [call EXCEPT !.pc = "done", !.profile = response, !.result = ProfileErr("Network error")]

author_modules_response_propagating(call, response) ==
    IF response.kind # "Ok"
    THEN [call EXCEPT !.pc = "done", !.modules = response, !.result = ProfileErr("Network error")]
    ELSE LET mapped_profile == map_author_profile(call.profile.body, response.body)
         IN  [call EXCEPT !.pc = "done", !.modules = response,
                          !.result = IF mapped_profile.ok THEN mapped_profile
                                     ELSE ProfileErr("Failed to parse author profile")]

\* the call after the response of api_v1_users_username_modules_get
author_modules_response(call, response) ==
    LET modules == IF response.kind = "Ok" THEN response.body ELSE <<>>
        mapped_profile == map_author_profile(call.profile.body, modules)
    IN  [call EXCEPT !.pc = "done", !.modules = response,
                     !.result = IF mapped_profile.ok THEN mapped_profile
                                ELSE ProfileErr("Failed to parse author profile")]

\* ---- reviews ----
ApiReviews == [id : {7}, rating : {-1, 5, 300}, helpful_count : {-2, 3}]

\* bodies of GET /api/v1/modules/{uuid}/reviews
ApiReviewsBodies == [reviews : StringsUpTo(ApiReviews, MaxReviews), total : {-1, 1}]

NoReviewsBody == [reviews |-> <<>>, total |-> 0]

ReviewsResponses == {ApiOk(b) : b \in ApiReviewsBodies} \cup ErrorResponses(NoReviewsBody)

\* ReviewsResponse::default()
DefaultReviews == [reviews |-> <<>>, total |-> 0]

ReviewsErr(msg) == [ok |-> FALSE, err |-> msg, reviews |-> DefaultReviews]

ReviewsOk(reviews) == [ok |-> TRUE, err |-> "", reviews |-> reviews]

\* parse_usize(i32, field)
parse_usize(n, field) ==
    IF n < 0 THEN [ok |-> FALSE, err |-> field \o " must be non-negative", v |-> 0]
    ELSE [ok |-> TRUE, err |-> "", v |-> n]

\* map_review(api): u8::try_from(api.rating), then the two counts
map_review(api) ==
    LET id == parse_u64(api.id, "review id")
        helpful_count == parse_u64(api.helpful_count, "helpful count")
    IN  IF api.rating < 0 \/ api.rating > 255
        THEN [ok |-> FALSE, err |-> "review rating must be between 0 and 255", review |-> api]
        ELSE IF ~id.ok THEN [ok |-> FALSE, err |-> id.err, review |-> api]
        ELSE IF ~helpful_count.ok THEN [ok |-> FALSE, err |-> helpful_count.err, review |-> api]
        ELSE [ok |-> TRUE, err |-> "", review |-> api]

\* map_reviews_response(api)
map_reviews_response(api) ==
    LET total == parse_usize(api.total, "reviews total")
    IN  IF \E i \in 1..Len(api.reviews) : ~map_review(api.reviews[i]).ok
        THEN ReviewsErr(map_review(api.reviews[
                 CHOOSE i \in 1..Len(api.reviews) :
                     /\ ~map_review(api.reviews[i]).ok
                     /\ \A j \in 1..(i - 1) : map_review(api.reviews[j]).ok]).err)
        ELSE IF ~total.ok THEN ReviewsErr(total.err)
        ELSE ReviewsOk([reviews |-> [i \in 1..Len(api.reviews) |-> map_review(api.reviews[i]).review],
                        total |-> total.v])

NoReviewsCall == [pc |-> "off", response |-> TransportError(NoReviewsBody), result |-> ReviewsErr("")]

reviews_response_not_found_only(call, response) ==
    IF response.kind = "ResponseError" /\ response.status = 404
    THEN [call EXCEPT !.pc = "done", !.response = response, !.result = ReviewsOk(DefaultReviews)]
    ELSE IF response.kind # "Ok"
    THEN [call EXCEPT !.pc = "done", !.response = response, !.result = ReviewsErr("Network error")]
    ELSE LET reviews == map_reviews_response(response.body)
         IN  [call EXCEPT !.pc = "done", !.response = response,
                          !.result = IF reviews.ok THEN reviews
                                     ELSE ReviewsErr("Failed to parse reviews")]

reviews_response_propagating(call, response) ==
    IF response.kind # "Ok"
    THEN [call EXCEPT !.pc = "done", !.response = response, !.result = ReviewsErr("Network error")]
    ELSE LET reviews == map_reviews_response(response.body)
         IN  [call EXCEPT !.pc = "done", !.response = response,
                          !.result = IF reviews.ok THEN reviews
                                     ELSE ReviewsErr("Failed to parse reviews")]

\* fetch_module_reviews_async after the response of
\* api_v1_modules_uuid_reviews_get
reviews_response(call, response) ==
    IF response.kind = "ResponseError"
    THEN [call EXCEPT !.pc = "done", !.response = response, !.result = ReviewsOk(DefaultReviews)]
    ELSE IF response.kind # "Ok"
    THEN [call EXCEPT !.pc = "done", !.response = response, !.result = ReviewsErr("Network error")]
    ELSE LET reviews == map_reviews_response(response.body)
         IN  [call EXCEPT !.pc = "done", !.response = response,
                          !.result = IF reviews.ok THEN reviews
                                     ELSE ReviewsErr("Failed to parse reviews")]

\* ---- the reload signal ----
\* how the pkill process ends: it could not be spawned, it exits with a code,
\* or a signal ends it (status.code() is None)
ExitStatuses ==
    {[spawned |-> FALSE, code |-> None]}
        \cup {[spawned |-> TRUE, code |-> c] : c \in {None} \cup {Some(k) : k \in 0..MaxExitCode}}

ReloadOk == [ok |-> TRUE, err |-> ""]

ReloadErr(msg) == [ok |-> FALSE, err |-> msg]

reload_waybar_success_only(status) ==
    IF ~status.spawned THEN ReloadErr("Failed to send reload signal")
    ELSE IF status.code = Some(0) THEN ReloadOk
    ELSE ReloadErr("pkill failed with status")

\* reload_waybar(), given how the pkill process ends
reload_waybar(status) ==
    IF ~status.spawned THEN ReloadErr("Failed to send reload signal")
    ELSE IF status.code = Some(0) \/ status.code = Some(1) THEN ReloadOk
    ELSE ReloadErr("pkill failed with status")

VARIABLES author_call, reviews_call, reload_status, reload_result

externalVars == <<author_call, reviews_call, reload_status, reload_result>>

NotReloaded == [spawned |-> FALSE, code |-> Some(0)]

ExternalIdle ==
    /\ author_call = NoAuthorCall
    /\ reviews_call = NoReviewsCall
    /\ reload_status = NotReloaded
    /\ reload_result = ReloadErr("")

ExternalInit == ExternalIdle

\* load_author_profile(username)
load_author_profile ==
    /\ author_call.pc \in {"off", "done"}
    /\ author_call' = [NoAuthorCall EXCEPT !.pc = "profile"]
    /\ UNCHANGED <<reviews_call, reload_status, reload_result>>

AuthorProfileResponse(response) ==
    /\ author_call.pc = "profile"
    /\ author_call' = author_profile_response(author_call, response)
    /\ UNCHANGED <<reviews_call, reload_status, reload_result>>

AuthorModulesResponse(response) ==
    /\ author_call.pc = "modules"
    /\ author_call' = author_modules_response(author_call, response)
    /\ UNCHANGED <<reviews_call, reload_status, reload_result>>

\* load_module_reviews(uuid)
load_module_reviews ==
    /\ reviews_call.pc \in {"off", "done"}
    /\ reviews_call' = [NoReviewsCall EXCEPT !.pc = "reviews"]
    /\ UNCHANGED <<author_call, reload_status, reload_result>>

ReviewsResponse(response) ==
    /\ reviews_call.pc = "reviews"
    /\ reviews_call' = reviews_response(reviews_call, response)
    /\ UNCHANGED <<author_call, reload_status, reload_result>>

\* a call of reload_waybar
ReloadWaybar(status) ==
    /\ reload_status' = status
    /\ reload_result' = reload_waybar(status)
    /\ UNCHANGED <<author_call, reviews_call>>

(***************************************************************************)
(* Module preferences (app/handlers/settings.rs).  A value map gives each  *)
(* key its value, or Absent when the map has no entry for the key; a       *)
(* schema gives each of its fields the declared default.                   *)
(***************************************************************************)
PrefKeys == {"color", "size"}

Absent == "<absent>"

\* the map without entries
EmptyMap == [k \in PrefKeys |-> Absent]

\* the schemas a module may declare
ColorSchema == [EmptyMap EXCEPT !["color"] = "red"]

ColorSizeSchema == [EmptyMap EXCEPT !["color"] = "red", !["size"] = "small"]

\* an installed-module record: the module name it registers under and the
\* schema load_schema finds in its install path
NotInstalled == [installed |-> FALSE, waybar_module_name |-> "", schema |-> None]

Installed(name, schema) == [installed |-> TRUE, waybar_module_name |-> name, schema |-> schema]

\* preferences::get_default_preferences(schema)
get_default_preferences(schema) == schema

\* preferences::merge_with_defaults(values, schema)
merge_with_defaults(values, schema) ==
    [k \in PrefKeys |-> IF values[k] # Absent THEN values[k] ELSE schema[k]]

\* the preferences file of a module
NoPreferencesFile == [exists |-> FALSE, values |-> EmptyMap]

PreferencesFile(values) == [exists |-> TRUE, values |-> values]

\* services::load_preferences(uuid)
load_preferences(file) == IF file.exists THEN file.values ELSE EmptyMap

\* services::save_preferences(uuid, values): the file after the call
save_preferences(file, values, saved) == IF saved THEN PreferencesFile(values) ELSE file

\* app.preferences with no dialog open
ClosedPreferences ==
    [open_for |-> None, schema |-> None, values |-> EmptyMap, module_name |-> ""]

VARIABLES preferences, installed_modules, preference_files, prefs_op

prefsVars == <<preferences, installed_modules, preference_files, prefs_op>>

\* the last message handled, and whether its save_preferences call succeeded
NoPrefsOp == [op |-> "none", uuid |-> <<>>, saved |-> FALSE]

PrefsOp(op, uuid, saved) == [op |-> op, uuid |-> uuid, saved |-> saved]

PrefsIdle ==
    /\ preferences = ClosedPreferences
    /\ installed_modules = [u \in AppUuidStrings |-> NotInstalled]
    /\ preference_files = [u \in AppUuidStrings |-> NoPreferencesFile]
    /\ prefs_op = NoPrefsOp

\* what is installed, and what the preferences files hold, at the start
PrefsInit ==
    /\ preferences = ClosedPreferences
    /\ installed_modules \in
          [AppUuidStrings -> {NotInstalled, Installed("custom/a", None),
                              Installed("custom/b", Some(ColorSchema)),
                              Installed("custom/c", Some(ColorSizeSchema))}]
    /\ preference_files \in
          [AppUuidStrings -> {NoPreferencesFile,
                              PreferencesFile([EmptyMap EXCEPT !["size"] = "large"])}]
    /\ prefs_op = NoPrefsOp

\* handle_open_preferences(uuid)
handle_open_preferences(uuid) ==
    LET installed == installed_modules[uuid]
    IN  /\ prefs_op' = PrefsOp("open", uuid, FALSE)
        /\ IF installed.installed /\ installed.schema # None
           THEN /\ preferences' =
                      [open_for |-> Some(uuid),
                       schema |-> installed.schema,
                       values |-> merge_with_defaults(load_preferences(preference_files[uuid]),
                                                      installed.schema[1]),
                       module_name |-> installed.waybar_module_name]
                /\ UNCHANGED notifications
           ELSE IF installed.installed
           THEN /\ Len(notifications) < MaxNotifications
                /\ notifications' = push_notification("Info")
                /\ UNCHANGED preferences
           ELSE UNCHANGED <<preferences, notifications>>
        /\ UNCHANGED <<installed_modules, preference_files, browse_refreshing, screen>>

\* handle_preference_changed(uuid, key, value)
handle_preference_changed(uuid, key, val) ==
    IF preferences.open_for = Some(uuid)
    THEN \E saved \in BOOLEAN :
            LET values == [preferences.values EXCEPT ![key] = val]
            IN  /\ preferences' = [preferences EXCEPT !.values = values]
                /\ preference_files' =
                      [preference_files EXCEPT ![uuid] = save_preferences(@, values, saved)]
                /\ IF saved THEN UNCHANGED notifications
                   ELSE /\ Len(notifications) < MaxNotifications
                        /\ notifications' = push_notification("Error")
                /\ prefs_op' = PrefsOp("changed", uuid, saved)
                /\ UNCHANGED <<installed_modules, browse_refreshing, screen>>
    ELSE /\ prefs_op' = PrefsOp("changed", uuid, FALSE)
         /\ UNCHANGED <<preferences, installed_modules, preference_files, appVars>>

\* handle_close_preferences
handle_close_preferences ==
    /\ preferences' = [preferences EXCEPT !.open_for = None, !.schema = None,
                                          !.values = EmptyMap]
    /\ prefs_op' = PrefsOp("close", <<>>, FALSE)
    /\ UNCHANGED <<installed_modules, preference_files, appVars>>

reset_preferences_merging(prefs) ==
    [prefs EXCEPT !.values = merge_with_defaults(prefs.values,
                                                 get_default_preferences(prefs.schema[1]))]

\* handle_reset_preferences: app.preferences after
\* app.preferences.values = defaults.clone()
reset_preferences(prefs) ==
    [prefs EXCEPT !.values = get_default_preferences(prefs.schema[1])]

\* handle_reset_preferences(uuid)
handle_reset_preferences(uuid) ==
    IF preferences.schema # None
    THEN \E saved \in BOOLEAN :
            /\ Len(notifications) < MaxNotifications
            /\ preferences' = reset_preferences(preferences)
            /\ preference_files' =
                  [preference_files EXCEPT
                      ![uuid] = save_preferences(@, get_default_preferences(preferences.schema[1]),
                                                 saved)]
            /\ notifications' = push_notification(IF saved THEN "Success" ELSE "Error")
            /\ prefs_op' = PrefsOp("reset", uuid, saved)
            /\ UNCHANGED <<installed_modules, browse_refreshing, screen>>
    ELSE /\ prefs_op' = PrefsOp("reset", uuid, FALSE)
         /\ UNCHANGED <<preferences, installed_modules, preference_files, appVars>>

(***************************************************************************)
(* The Escape key and the search focus (app/handlers/settings.rs).  The    *)
(* layers Escape can dismiss are the preferences dialog, the pending       *)
(* confirmation, the module-detail screen, the search query of the Browse  *)
(* and of the Installed screen, and the notification queue.                *)
(***************************************************************************)
\* most notifications queued when the application is first observed
MaxQueued == 2

\* app.browse / app.installed: the search box of the screen
NoSearch == [search_query |-> "", pending_search |-> None]

Searches ==
    {NoSearch,
     [search_query |-> "q", pending_search |-> None],
     [search_query |-> "q", pending_search |-> Some("qu")]}

VARIABLES browse, installed

searchVars == <<browse, installed>>

\* the fields of App that handle_escape_pressed reads or writes
AppLayers ==
    [preferences |-> preferences, pending_action |-> pending_action, screen |-> screen,
     module_detail |-> module_detail, browse |-> browse, installed |-> installed,
     notifications |-> notifications]

escape_pressed_confirmation_first(app) ==
    IF app.pending_action # None
    THEN [app EXCEPT !.pending_action = None]
    ELSE IF app.preferences.open_for # None
    THEN [app EXCEPT !.preferences.open_for = None, !.preferences.schema = None,
                     !.preferences.values = EmptyMap]
    ELSE IF app.screen.tag = "ModuleDetail"
    THEN [app EXCEPT !.screen = ScreenOf("Browse"),
                     !.module_detail = [installing |-> FALSE, screenshot |-> "NotLoaded"]]
    ELSE IF app.browse.search_query # "" /\ app.screen = ScreenOf("Browse")
    THEN [app EXCEPT !.browse = NoSearch]
    ELSE IF app.installed.search_query # "" /\ app.screen = ScreenOf("Installed")
    THEN [app EXCEPT !.installed = NoSearch]
    ELSE [app EXCEPT !.notifications = IF @ = <<>> THEN <<>> ELSE Tail(@)]

escape_pressed_keeping_schema(app) ==
    IF app.preferences.open_for # None
    THEN [app EXCEPT !.preferences.open_for = None, !.preferences.values = EmptyMap]
    ELSE IF app.pending_action # None
    THEN [app EXCEPT !.pending_action = None]
    ELSE IF app.screen.tag = "ModuleDetail"
    THEN [app EXCEPT !.screen = ScreenOf("Browse"),
                     !.module_detail = [installing |-> FALSE, screenshot |-> "NotLoaded"]]
    ELSE IF app.browse.search_query # "" /\ app.screen = ScreenOf("Browse")
    THEN [app EXCEPT !.browse = NoSearch]
    ELSE IF app.installed.search_query # "" /\ app.screen = ScreenOf("Installed")
    THEN [app EXCEPT !.installed = NoSearch]
    ELSE [app EXCEPT !.notifications = IF @ = <<>> THEN <<>> ELSE Tail(@)]

\* handle_escape_pressed: the fields of App after the call
escape_pressed(app) ==
    IF app.preferences.open_for # None
    THEN [app EXCEPT !.preferences.open_for = None, !.preferences.schema = None,
                     !.preferences.values = EmptyMap]
    ELSE IF app.pending_action # None
    THEN [app EXCEPT !.pending_action = None]
    ELSE IF app.screen.tag = "ModuleDetail"
    THEN [app EXCEPT !.screen = ScreenOf("Browse"),
                     !.module_detail = [installing |-> FALSE, screenshot |-> "NotLoaded"]]
    ELSE IF app.browse.search_query # "" /\ app.screen = ScreenOf("Browse")
    THEN [app EXCEPT !.browse = NoSearch]
    ELSE IF app.installed.search_query # "" /\ app.screen = ScreenOf("Installed")
    THEN [app EXCEPT !.installed = NoSearch]
    ELSE [app EXCEPT !.notifications = IF @ = <<>> THEN <<>> ELSE Tail(@)]

SearchIdle ==
    /\ browse = NoSearch
    /\ installed = NoSearch

\* the application as Escape may find it: some screen shown, something typed
\* in the search boxes, notifications queued, two modules installed of which
\* one declares preferences
LayersInit ==
    /\ pending_action = None
    /\ uninstalling = {}
    /\ uninstall_tasks = [u \in AppUuids |-> 0]
    /\ browse_refreshing = FALSE
    /\ screen \in {ScreenOf("Browse"), ScreenOf("Installed"), ScreenOf("Updates"),
                   ModuleDetail(<<"a", At, "a">>)}
    /\ module_detail \in IF screen.tag = "ModuleDetail"
                         THEN [installing : BOOLEAN, screenshot : {"Loaded"}]
                         ELSE {[installing |-> FALSE, screenshot |-> "NotLoaded"]}
    /\ notifications \in StringsUpTo({"Info", "Error"}, MaxQueued)
    /\ browse \in Searches
    /\ installed \in Searches
    /\ preferences = ClosedPreferences
    /\ installed_modules =
          [u \in AppUuidStrings |->
              IF u = <<"a", At, "a">> THEN Installed("custom/b", Some(ColorSchema))
              ELSE Installed("custom/a", None)]
    /\ preference_files = [u \in AppUuidStrings |-> NoPreferencesFile]
    /\ prefs_op = NoPrefsOp

\* handle_escape_pressed
handle_escape_pressed ==
    LET after == escape_pressed(AppLayers)
    IN  /\ preferences' = after.preferences
        /\ pending_action' = after.pending_action
        /\ screen' = after.screen
        /\ module_detail' = after.module_detail
        /\ browse' = after.browse
        /\ installed' = after.installed
        /\ notifications' = after.notifications
        /\ UNCHANGED <<uninstalling, uninstall_tasks, browse_refreshing>>

\* handle_focus_search
handle_focus_search ==
    /\ screen' = IF screen.tag \in {"Browse", "Installed"} THEN screen ELSE ScreenOf("Browse")
    /\ UNCHANGED <<browse_refreshing, notifications>>

(***************************************************************************)
(* The star rating (widget/mod.rs, api.rs).  An f32 rating is counted in   *)
(* quarter stars: the number q stands for the rating q / 4, so that        *)
(* floor() and the half-star test are computed on integers.                *)
(***************************************************************************)
\* highest rating of a payload, in quarter stars (24 is 6.0)
MaxRating == 24

\* most quarter stars below zero of a payload rating (4 is -1.0)
MaxBelowZero == 4

\* the rating field of an api RegistryModule: Option<Option<f32>>
ApiRatings == {None, Some(None)} \cup {Some(Some(q)) : q \in (-MaxBelowZero)..MaxRating}

\* the String returned: so many full, half and empty glyphs
Stars(full, half, empty) ==
    [panicked |-> FALSE, message |-> "", full |-> full, half |-> half, empty |-> empty]

\* the call unwinds
StarsPanic(message) == [panicked |-> TRUE, message |-> message, full |-> 0, half |-> 0, empty |-> 0]

\* rating_stars_text(rating).  `as usize` saturates a negative floor to 0.
\* 5 - full_stars - half is computed in usize from left to right: when it
\* goes below zero a build with overflow checks panics at the subtraction,
\* and a build without them wraps to a count of more than usize::MAX / 3
\* glyphs, for which "☆".repeat(..) panics with "capacity overflow".
rating_stars_text(rating, overflow_checks) ==
    LET floor == rating \div 4
        full_stars == IF floor < 0 THEN 0 ELSE floor
        half_star == (rating - 4 * floor) >= 2
        half == IF half_star THEN 1 ELSE 0
        empty_stars == 5 - full_stars - half
    IN  IF empty_stars >= 0 THEN Stars(full_stars, half, empty_stars)
        ELSE IF overflow_checks THEN StarsPanic("attempt to subtract with overflow")
        ELSE StarsPanic("capacity overflow")

VARIABLES api_rating, overflow_checks, stars_call

starsVars == <<api_rating, overflow_checks, stars_call>>

NoStarsCall == [pc |-> "off", rating |-> None, text |-> Stars(0, 0, 0)]

StarsIdle ==
    /\ api_rating = None
    /\ overflow_checks = FALSE
    /\ stars_call = NoStarsCall

\* a payload entry with some rating, and the build profile of the binary
StarsInit ==
    /\ api_rating \in ApiRatings
    /\ overflow_checks \in BOOLEAN
    /\ stars_call = [NoStarsCall EXCEPT !.pc = "payload"]

\* map_registry_module: rating: rating.flatten()
MapRating ==
    /\ stars_call.pc = "payload"
    /\ stars_call' = [stars_call EXCEPT !.pc = "mapped", !.rating = Flatten(api_rating)]
    /\ UNCHANGED <<api_rating, overflow_checks>>

\* the module's rating is shown: rating_stars_text(rating)
RatingStarsText ==
    /\ stars_call.pc = "mapped"
    /\ stars_call.rating # None
    /\ stars_call' = [stars_call EXCEPT
                         !.pc = "shown",
                         !.text = rating_stars_text(stars_call.rating[1], overflow_checks)]
    /\ UNCHANGED <<api_rating, overflow_checks>>

(***************************************************************************)
(* Specifications.                                                         *)
(***************************************************************************)
vars == <<uuidVars, extractVars, mapVars, registryVars, confirmVars, appVars, configVars, cssVars, externalVars, prefsVars, searchVars, starsVars>>

\* ---- identity parsing and install paths ----
UuidSpecInit ==
    /\ UuidInit
    /\ SearchIdle /\ StarsIdle
    /\ ExtractIdle /\ MapIdle /\ RegistryIdle /\ ConfirmIdle /\ AppIdle /\ ConfigIdle /\ CssIdle /\ ExternalIdle /\ PrefsIdle

UuidFrame == UNCHANGED <<starsVars, searchVars, extractVars, mapVars, registryVars, confirmVars, appVars, configVars, cssVars, externalVars, prefsVars>>

UuidNext ==
    \/ TryFrom /\ UuidFrame
    \/ ModuleInstallPath /\ UuidFrame
    \/ FormatAndParse /\ UuidFrame

SpecUuid == UuidSpecInit /\ [][UuidNext]_vars

\* ---- archive extraction ----
ExtractSpecInit ==
    /\ ExtractInit
    /\ SearchIdle /\ StarsIdle
    /\ UuidIdle /\ MapIdle /\ RegistryIdle /\ ConfirmIdle /\ AppIdle /\ ConfigIdle /\ CssIdle /\ ExternalIdle /\ PrefsIdle

ExtractFrame == UNCHANGED <<starsVars, searchVars, uuidVars, mapVars, registryVars, confirmVars, appVars, configVars, cssVars, externalVars, prefsVars>>

ExtractNext ==
    \/ ExtractEntry /\ ExtractFrame
    \/ ExtractAbort /\ ExtractFrame
    \/ ExtractFinish /\ ExtractFrame

SpecExtract == ExtractSpecInit /\ [][ExtractNext]_vars

\* ---- registry payload mapping ----
MapSpecInit ==
    /\ MapInit
    /\ SearchIdle /\ StarsIdle
    /\ UuidIdle /\ ExtractIdle /\ RegistryIdle /\ ConfirmIdle /\ AppIdle /\ ConfigIdle /\ CssIdle /\ ExternalIdle /\ PrefsIdle

MapNext ==
    MapRegistryIndex /\ UNCHANGED <<starsVars, searchVars, uuidVars, extractVars, registryVars, confirmVars, appVars, configVars, cssVars, externalVars, prefsVars>>

SpecMap == MapSpecInit /\ [][MapNext]_vars

\* ---- the registry handlers and the steps of the tasks they start ----
RegistrySpecInit ==
    /\ RegistryInit
    /\ SearchIdle /\ StarsIdle
    /\ UuidIdle /\ ExtractIdle /\ MapIdle /\ ConfirmIdle /\ AppIdle /\ ConfigIdle /\ CssIdle /\ ExternalIdle /\ PrefsIdle

RegistryFrame == UNCHANGED <<starsVars, searchVars, uuidVars, extractVars, mapVars, confirmVars, configVars, cssVars, externalVars, prefsVars>>

RegistryNext ==
    \/ handle_refresh_registry /\ RegistryFrame
    \/ handle_tray_check_updates /\ RegistryFrame
    \/ handle_dismiss_notification /\ UNCHANGED <<starsVars, searchVars, uuidVars, extractVars, mapVars, registryVars, configVars, cssVars, externalVars, prefsVars>>
    \/ \E task \in InFlight : LoadRead(task) /\ RegistryFrame
    \/ \E task \in InFlight : RefreshRemove(task) /\ RegistryFrame
    \/ \E task \in InFlight : NetworkFetch(task) /\ RegistryFrame
    \/ \E task \in InFlight : CreateCacheDir(task) /\ RegistryFrame
    \/ \E task \in InFlight : WriteCache(task) /\ RegistryFrame
    \/ \E task \in InFlight : TaskCompleted(task) /\ RegistryFrame

SpecRegistry == RegistrySpecInit /\ [][RegistryNext]_vars

\* ---- the confirmation dialog, the uninstall tasks, the notifications ----
ConfirmSpecInit ==
    /\ ConfirmInit
    /\ SearchIdle /\ StarsIdle
    /\ UuidIdle /\ ExtractIdle /\ MapIdle /\ RegistryIdle /\ ConfigIdle /\ CssIdle /\ ExternalIdle /\ PrefsIdle

ConfirmFrame == UNCHANGED <<starsVars, searchVars, uuidVars, extractVars, mapVars, registryVars, configVars, cssVars, externalVars, prefsVars>>

ConfirmNext ==
    \/ \E u \in AppUuids : handle_request_confirmation(UninstallModule(u)) /\ ConfirmFrame
    \/ handle_confirm_action /\ ConfirmFrame
    \/ handle_cancel_confirmation /\ ConfirmFrame
    \/ handle_dismiss_notification /\ ConfirmFrame
    \/ handle_detail_install_module /\ ConfirmFrame
    \/ \E k \in NotificationKinds : handle_show_notification(k) /\ ConfirmFrame
    \/ \E u \in AppUuids : UninstallCompleted(u) /\ ConfirmFrame

SpecConfirm == ConfirmSpecInit /\ [][ConfirmNext]_vars

\* ---- the bar configuration ----
ConfigSpecInit ==
    /\ ConfigInit
    /\ SearchIdle /\ StarsIdle
    /\ UuidIdle /\ ExtractIdle /\ MapIdle /\ RegistryIdle /\ ConfirmIdle /\ AppIdle /\ CssIdle /\ ExternalIdle /\ PrefsIdle

ConfigFrame == UNCHANGED <<starsVars, searchVars, uuidVars, extractVars, mapVars, registryVars, confirmVars, appVars, cssVars, externalVars, prefsVars>>

ConfigNext ==
    \/ \E m \in ModuleNames, s \in BarSections : AddModule(m, s) /\ ConfigFrame
    \/ \E m \in ModuleNames : RemoveModule(m) /\ ConfigFrame

SpecConfig == ConfigSpecInit /\ [][ConfigNext]_vars

\* ---- CSS injection and removal ----
CssSpecInit ==
    /\ CssInit
    /\ SearchIdle /\ StarsIdle
    /\ UuidIdle /\ ExtractIdle /\ MapIdle /\ RegistryIdle /\ ConfirmIdle /\ AppIdle /\ ConfigIdle
    /\ ExternalIdle /\ PrefsIdle

CssFrame ==
    UNCHANGED <<starsVars, searchVars, uuidVars, extractVars, mapVars, registryVars, confirmVars, appVars, configVars,
                externalVars, prefsVars>>

CssNext ==
    \/ \E u \in AppUuidStrings : CssInjectionStarted(u) /\ CssFrame
    \/ \E u \in AppUuidStrings : CssRemovalStarted(u) /\ CssFrame
    \/ \E task \in CssInFlight : CssReadStyle(task) /\ CssFrame
    \/ \E task \in CssInFlight : CssWrite(task) /\ CssFrame

SpecCss == CssSpecInit /\ [][CssNext]_vars

\* ---- the author profile and review fetches, the reload signal ----
ExternalSpecInit ==
    /\ ExternalInit
    /\ SearchIdle /\ StarsIdle
    /\ UuidIdle /\ ExtractIdle /\ MapIdle /\ RegistryIdle /\ ConfirmIdle /\ AppIdle /\ ConfigIdle
    /\ CssIdle /\ PrefsIdle

ExternalFrame ==
    UNCHANGED <<starsVars, searchVars, uuidVars, extractVars, mapVars, registryVars, confirmVars, appVars, configVars,
                cssVars, prefsVars>>

ExternalNext ==
    \/ load_author_profile /\ ExternalFrame
    \/ \E r \in ProfileResponses : AuthorProfileResponse(r) /\ ExternalFrame
    \/ \E r \in AuthorModulesResponses : AuthorModulesResponse(r) /\ ExternalFrame
    \/ load_module_reviews /\ ExternalFrame
    \/ \E r \in ReviewsResponses : ReviewsResponse(r) /\ ExternalFrame
    \/ \E status \in ExitStatuses : ReloadWaybar(status) /\ ExternalFrame

SpecExternal == ExternalSpecInit /\ [][ExternalNext]_vars

\* ---- module preferences ----
PrefsSpecInit ==
    /\ PrefsInit
    /\ SearchIdle /\ StarsIdle
    /\ UuidIdle /\ ExtractIdle /\ MapIdle /\ RegistryIdle /\ ConfirmIdle /\ AppIdle /\ ConfigIdle
    /\ CssIdle /\ ExternalIdle

PrefsFrame ==
    UNCHANGED <<starsVars, searchVars, uuidVars, extractVars, mapVars, registryVars, confirmVars, configVars, cssVars,
                externalVars>>

PrefsNext ==
    \/ \E u \in AppUuidStrings : handle_open_preferences(u) /\ PrefsFrame
    \/ \E u \in AppUuidStrings, k \in PrefKeys :
          handle_preference_changed(u, k, "blue") /\ PrefsFrame
    \/ handle_close_preferences /\ PrefsFrame
    \/ \E u \in AppUuidStrings : handle_reset_preferences(u) /\ PrefsFrame
    \/ /\ handle_escape_pressed
       /\ prefs_op' = PrefsOp("escape", <<>>, FALSE)
       /\ UNCHANGED <<installed_modules, preference_files>>
       /\ UNCHANGED <<starsVars, uuidVars, extractVars, mapVars, registryVars, configVars, cssVars,
                      externalVars>>
    \/ /\ handle_dismiss_notification
       /\ prefs_op' = NoPrefsOp
       /\ UNCHANGED <<preferences, installed_modules, preference_files>>
       /\ UNCHANGED <<starsVars, searchVars, uuidVars, extractVars, mapVars, registryVars, configVars, cssVars,
                      externalVars>>

SpecPrefs == PrefsSpecInit /\ [][PrefsNext]_vars

\* ---- the Escape key over the dialogs, screens, searches and notifications ----
LayersSpecInit ==
    /\ LayersInit
    /\ StarsIdle
    /\ UuidIdle /\ ExtractIdle /\ MapIdle /\ RegistryIdle /\ ConfigIdle /\ CssIdle /\ ExternalIdle

LayersFrame ==
    UNCHANGED <<starsVars, uuidVars, extractVars, mapVars, registryVars, configVars, cssVars, externalVars>>

\* what the handlers of system.rs leave alone
ConfirmRest == UNCHANGED <<starsVars, searchVars, prefsVars>>

LayersNext ==
    \/ /\ handle_escape_pressed
       /\ UNCHANGED <<installed_modules, preference_files, prefs_op>>
       /\ LayersFrame
    \/ /\ handle_focus_search
       /\ UNCHANGED <<confirmVars, searchVars, prefsVars>>
       /\ LayersFrame
    \/ \E u \in AppUuidStrings :
          handle_open_preferences(u) /\ UNCHANGED <<confirmVars, searchVars>> /\ LayersFrame
    \/ \E u \in AppUuids :
          handle_request_confirmation(UninstallModule(u)) /\ ConfirmRest /\ LayersFrame
    \/ handle_confirm_action /\ ConfirmRest /\ LayersFrame
    \/ handle_cancel_confirmation /\ ConfirmRest /\ LayersFrame
    \/ handle_dismiss_notification /\ ConfirmRest /\ LayersFrame

SpecLayers == LayersSpecInit /\ [][LayersNext]_vars

\* ---- the star rating of a module ----
StarsSpecInit ==
    /\ StarsInit
    /\ SearchIdle
    /\ UuidIdle /\ ExtractIdle /\ MapIdle /\ RegistryIdle /\ ConfirmIdle /\ AppIdle /\ ConfigIdle
    /\ CssIdle /\ ExternalIdle /\ PrefsIdle

StarsFrame ==
    UNCHANGED <<searchVars, uuidVars, extractVars, mapVars, registryVars, confirmVars, appVars,
                configVars, cssVars, externalVars, prefsVars>>

StarsNext ==
    \/ MapRating /\ StarsFrame
    \/ RatingStarsText /\ StarsFrame

SpecStars == StarsSpecInit /\ [][StarsNext]_vars

(***************************************************************************)
(* Properties of ModuleUuid::try_from and module_install_path.             *)
(***************************************************************************)
CountChar(s, ch) == Cardinality({i \in 1..Len(s) : s[i] = ch})

\* the identity invariants of a uuid string
IdentityInvariants(s) ==
    LET p == Find(s, At)
        name == SubSeq(s, 1, p - 1)
        namespace == SubSeq(s, p + 1, Len(s))
    IN  /\ CountChar(s, At) = 1
        /\ name # <<>>
        /\ namespace # <<>>
        /\ name # DotDot
        /\ namespace # DotDot
        /\ ~ContainsChar(s, Slash)
        /\ ~ContainsChar(s, Backslash)
        /\ ~ContainsChar(s, Nul)
        /\ ~ContainsStr(s, DotDotSlash)
        /\ ~ContainsStr(s, DotDotBackslash)

\* C1: every string accepted by try_from satisfies all identity invariants
\* (exactly one '@', both parts non-empty and not "..", no separator, NUL or
\* "../" / "..\" in the string).
C1_AcceptedSatisfiesInvariants ==
    (upc # "input" /\ parsed.ok) => IdentityInvariants(value)

\* the part of s before its first '@' (all of s when there is none)
NameSide(s) == IF Find(s, At) = 0 THEN s ELSE SubSeq(s, 1, Find(s, At) - 1)

\* the part of s after its first '@' (empty when there is none)
NamespaceSide(s) == IF Find(s, At) = 0 THEN <<>> ELSE SubSeq(s, Find(s, At) + 1, Len(s))

LooksLikeTraversal(s) ==
    \/ ContainsStr(s, DotDotSlash)
    \/ (Find(s, At) # 0 /\ (NameSide(s) = DotDot \/ NamespaceSide(s) = DotDot))

\* C2 as stated: every input that contains "../" or has ".." on either side
\* of the '@' fails with PathTraversalAttempt and no other error kind.
C2_AlwaysPathTraversal ==
    (upc # "input" /\ LooksLikeTraversal(value)) =>
        (~parsed.ok /\ parsed.err = "PathTraversalAttempt")

\* C2 amended: an input that has an '@' with a non-empty part before the first
\* '@' and a non-empty part after it, and that contains "../" or has ".." on
\* either side, fails with PathTraversalAttempt; an input with no '@' or with
\* an empty side fails with MissingAtSymbol, EmptyName or EmptyNamespace.
C2_PathTraversalWhenWellFormed ==
    (upc # "input" /\ LooksLikeTraversal(value)) =>
        /\ ~parsed.ok
        /\ IF Find(value, At) = 0 THEN parsed.err = "MissingAtSymbol"
           ELSE IF NameSide(value) = <<>> THEN parsed.err = "EmptyName"
           ELSE IF NamespaceSide(value) = <<>> THEN parsed.err = "EmptyNamespace"
           ELSE parsed.err = "PathTraversalAttempt"

C2_Witness ==
    /\ upc = "parsed"
    /\ value = <<Dot, Dot, Slash, At, "a">>
    /\ parsed.err = "PathTraversalAttempt"

\* C3: for every accepted string the install path is a direct child of
\* modules_dir(): the join adds exactly one component, the string itself, and
\* neither escapes nor replaces the base directory.
C3_InstallPathIsDirectChild ==
    (upc = "joined" /\ parsed.ok) =>
        /\ install_path = modules_dir \o <<value>>
        /\ IsDirectChild(install_path, modules_dir)

C3_Witness ==
    /\ upc = "joined"
    /\ parsed.ok
    /\ Len(value) = 4
    /\ ContainsChar(value, Dot)
    /\ IsDirectChild(install_path, modules_dir)

\* C21: try_from returns MissingAtSymbol for every string without '@',
\* EmptyName for every string whose first '@' is its first character, and
\* EmptyNamespace for every string with a non-empty name whose first '@' is
\* its last character.
C21_ErrorKindByAtPosition ==
    upc \in {"parsed", "joined", "formatted"} =>
        /\ ~ContainsChar(value, At) => (~parsed.ok /\ parsed.err = "MissingAtSymbol")
        /\ Find(value, At) = 1 => (~parsed.ok /\ parsed.err = "EmptyName")
        /\ (Find(value, At) > 1 /\ Find(value, At) = Len(value)) =>
              (~parsed.ok /\ parsed.err = "EmptyNamespace")

C21_Witness ==
    /\ upc = "parsed"
    /\ value = <<At>>
    /\ parsed.err = "EmptyName"

\* C22: for every string accepted by try_from the Display output of the
\* parsed value is the string itself, and parsing that output again gives an
\* equal ModuleUuid.
C22_ParseFormatRoundTrip ==
    upc = "formatted" =>
        /\ formatted = value
        /\ reparsed.ok
        /\ reparsed.name = parsed.name
        /\ reparsed.namespace = parsed.namespace

C22_Witness ==
    /\ upc = "formatted"
    /\ Len(value) = 4
    /\ CountChar(value, At) = 2
    /\ reparsed = parsed

(***************************************************************************)
(* Properties of the extraction guard.                                     *)
(***************************************************************************)
\* C4: ../../etc/passwd is rejected against every install base directory, and
\* nothing of that entry is ever written: reaching it aborts the extraction.
C4_EvilEntryRejectedBeforeWrite ==
    /\ \A b \in InstallBases : ~validate_extraction_path(b, EvilEntry)
    /\ EvilEntry \notin written_entries
    /\ \A p \in written : IsStrictDescendant(p, xbase)
    /\ ResolvedEntry(xbase, EvilEntry) \notin written
    /\ (xpc = "done" => \A i \in 1..Len(archive) : archive[i] # EvilEntry)

C4_Witness ==
    /\ xpc = "aborted"
    /\ xnext = 2
    /\ archive[2] = EvilEntry
    /\ written = {}
    /\ written_entries # {}
(***************************************************************************)
(* Properties of the registry mapping.                                     *)
(***************************************************************************)
\* a module entry that is malformed in one of the four ways
IsMalformedEntry(api) ==
    \/ ~try_from(api.uuid).ok
    \/ (Flatten(api.version) # None /\ ~parse_module_version(Flatten(api.version)[1]).ok)
    \/ (Flatten(api.last_updated) # None /\ ~IsRfc3339(Flatten(api.last_updated)[1]))
    \/ api.downloads < 0

\* C5: map_registry_index is all-or-nothing: one malformed module entry
\* (uuid, version, timestamp, negative downloads) makes the call an error with
\* no index, and an index that is returned has one module for every entry.
C5_MappingAllOrNothing ==
    (mpc = "mapped") =>
        /\ (\E i \in 1..Len(payload.modules) : IsMalformedEntry(payload.modules[i]))
              => (~mapped.ok /\ mapped.index = NoIndex)
        /\ mapped.ok =>
              /\ Len(mapped.index.modules) = Len(payload.modules)
              /\ \A i \in 1..Len(payload.modules) :
                    to_string(mapped.index.modules[i].uuid) = payload.modules[i].uuid

C5_Witness ==
    /\ mpc = "mapped"
    /\ Len(payload.modules) = 2
    /\ ~IsMalformedEntry(payload.modules[1])
    /\ payload.modules[2].downloads < 0
    /\ payload.modules[2].uuid = WeatherUuid
    /\ ~mapped.ok
(***************************************************************************)
(* Properties of the registry cache tasks.                                 *)
(***************************************************************************)
\* the cache file a task saw could be read and parsed as a RegistryIndex
SawValidCache(task) == task.seen.exists /\ from_str(task.seen.content).ok

LoadTasks == {task \in InFlight : task.kind = "load"}

RefreshTasks == {task \in InFlight : task.kind = "refresh"}

\* C6: Load is cache-first: when the cache file is read and parses, the call
\* returns that index at once, with no network request and no cache write.
C6_LoadIsCacheFirst ==
    \A task \in LoadTasks :
        (task.pc # "read" /\ SawValidCache(task)) =>
            /\ task.pc = "done"
            /\ task.result = OkIndex(from_str(task.seen.content).index)
            /\ task.requests = 0
            /\ task.writes = 0
            /\ task.removes = 0

C6_Witness ==
    \E task \in LoadTasks :
        /\ task.pc = "done"
        /\ SawValidCache(task)
        /\ task.result.ok
        /\ task.result.index.version = 1
        /\ cache = task.seen

\* every refresh task has called remove_file before its request, finishes only
\* after a network request, and never reports the removal as an error
RefreshOrder ==
    \A task \in RefreshTasks :
        /\ task.pc # "remove" => task.removes = 1
        /\ task.requests > 0 => task.removes = 1
        /\ task.pc \in {"mkdir", "write", "done"} => task.requests = 1
        /\ task.pc = "done" =>
              \/ task.result.ok
              \/ task.result.err \in {"Network error", "Invalid registry data"}

\* the remove_file step of a refresh task leaves the cache file absent and
\* moves the task on to its request, whether or not the file existed
RemoveStep ==
    \A task \in RefreshTasks :
        (task.pc = "remove" /\ CopiesIn(task, tasks') < CopiesIn(task, tasks)) =>
            /\ cache' = AbsentFile
            /\ \E after \in BagToSet(tasks') :
                  /\ after.kind = "refresh" /\ after.pc = "request" /\ after.seen = cache
                  /\ CopiesIn(after, tasks') > CopiesIn(after, tasks)

C8_PersistFailureNotPropagated ==
    \A task \in LoadTasks :
        /\ (task.pc = "done" /\ ~SawValidCache(task)) => task.requests = 1
        /\ (task.pc = "done" /\ task.requests = 1 /\ task.response # NetError
              /\ map_registry_index(task.response).ok) =>
              /\ task.result = OkIndex(map_registry_index(task.response).index)
              /\ task.writes = 1

C8_Witness ==
    \E task \in LoadTasks :
        /\ task.pc = "done"
        /\ task.seen = FileWith(Garbage)
        /\ task.dir = "failed"
        /\ task.persist = "failed"
        /\ task.result = OkIndex(map_registry_index(PayloadGood).index)

\* a task that still has a delete or a write of the cache file ahead of it
WillTouchCache(task) ==
    \/ task.kind = "refresh" /\ task.pc # "done"
    \/ task.kind = "load" /\ task.pc \in {"request", "mkdir", "write"}

\* the number of tasks in flight that will yet delete or write the cache file
CacheWriters ==
    LET touching == {task \in InFlight : WillTouchCache(task)}
    IN  BagCardinality([task \in touching |-> CopiesIn(task, tasks)])

\* C10: the cache file is single-writer-at-a-time: at most one task that
\* deletes or writes it is in flight at any moment.
C10_SingleCacheWriter == CacheWriters <= 1

\* the step in which a refresh task that had seen a valid cache file ends in
\* an error (the request or the mapping failed)
RefreshFails(task, after) ==
    /\ task.kind = "refresh" /\ task.pc = "request" /\ SawValidCache(task)
    /\ CopiesIn(task, tasks') < CopiesIn(task, tasks)
    /\ after.kind = "refresh" /\ after.pc = "done" /\ ~after.result.ok
    /\ after.seen = task.seen
    /\ CopiesIn(after, tasks') > CopiesIn(after, tasks)

\* C25 as stated: when a refresh fails (network error or mapping error) and
\* a valid cache file existed, the cache file is absent afterwards, and a
\* Load that reads it next is not served from the cache.
C25_FailedRefreshLeavesCacheAbsent ==
    [][\A task \in BagToSet(tasks), after \in BagToSet(tasks') :
          RefreshFails(task, after) =>
             /\ cache' = AbsentFile
             /\ ~fetch_read(load_registry, cache').hit]_vars

(***************************************************************************)
(* Properties of the confirmation and uninstall handlers.                  *)
(***************************************************************************)
\* C9: at most one uninstall task per uuid is in flight at any time.
C9_OneUninstallPerUuid == \A u \in AppUuids : uninstall_tasks[u] <= 1

(***************************************************************************)
(* Properties of add_module and remove_module.                             *)
(***************************************************************************)
\* the items of the array the parsed config holds under key (none when the
\* key is absent or its value is not an array)
SectionItems(content, key) ==
    LET obj == parse_to_serde_value(content).map
    IN  IF HasKey(obj, key) /\ obj[KeyIndex(obj, key)].val.array
        THEN obj[KeyIndex(obj, key)].val.items
        ELSE <<>>

\* the parsed config holds an array under key
HasSectionArray(content, key) ==
    LET obj == parse_to_serde_value(content).map
    IN  HasKey(obj, key) /\ obj[KeyIndex(obj, key)].val.array

\* how often the string module_name occurs in items
Occurrences(items, module_name) ==
    Cardinality({i \in 1..Len(items) : items[i] = JString(module_name)})

\* the value the parsed config holds under key
MemberOf(content, key) ==
    LET obj == parse_to_serde_value(content).map
    IN  IF HasKey(obj, key) THEN <<obj[KeyIndex(obj, key)].val>> ELSE <<>>

ConfigKeys == SectionKeySet \cup {"layer"}

AddedOk == config_op.op = "add" /\ config_op.ok

RemovedOk == config_op.op = "remove" /\ config_op.ok

\* C11: add_module is idempotent: applied again to its own result with the
\* same module and section it returns that result unchanged, and when the
\* module was absent from the section array the result lists it exactly once.
C11_AddModuleIdempotent ==
    AddedOk =>
        LET key == array_key(config_op.section)
        IN  /\ add_module(config, config_op.module, config_op.section) = ConfigOk(config)
            /\ config_op.repeat => config = config_before
            /\ Occurrences(SectionItems(config_before, key), config_op.module) = 0
                  => Occurrences(SectionItems(config, key), config_op.module) = 1

C11_Witness ==
    /\ AddedOk
    /\ config_op.repeat
    /\ config_op.module = "custom/weather"
    /\ config = config_before
    /\ SectionItems(config, array_key(config_op.section))
          = <<JString("clock"), JString("custom/weather")>>

\* C12 as stated: after a successful add_module the module is listed exactly
\* once in the array of the section, whatever the input config was.
C12_ExactlyOnceForEveryInput ==
    AddedOk =>
        Occurrences(SectionItems(config, array_key(config_op.section)), config_op.module) = 1

\* C12 amended: after a successful add_module the section array exists and
\* lists the module exactly once when the input array listed it at most once
\* (an absent array is created); an input array that lists it several times
\* is left as it is.
C12_ExactlyOnceUnlessListedBefore ==
    AddedOk =>
        LET key == array_key(config_op.section)
            before == Occurrences(SectionItems(config_before, key), config_op.module)
            after == Occurrences(SectionItems(config, key), config_op.module)
        IN  /\ HasSectionArray(config, key)
            /\ before <= 1 => after = 1
            /\ before > 1 => after = before

C12_Witness ==
    /\ AddedOk
    /\ ~HasSectionArray(config_before, array_key(config_op.section))
    /\ SectionItems(config, array_key(config_op.section)) = <<JString(config_op.module)>>

\* C13: add_module changes only the array of its section: a new module is
\* appended after the existing items, and the other section arrays and every
\* other key are left as they were.
C13_AddModuleChangesOnlyItsSection ==
    AddedOk =>
        LET key == array_key(config_op.section)
            before == SectionItems(config_before, key)
        IN  /\ SectionItems(config, key) =
                  IF Occurrences(before, config_op.module) > 0 THEN before
                  ELSE Append(before, JString(config_op.module))
            /\ \A other \in ConfigKeys \ {key} :
                  MemberOf(config, other) = MemberOf(config_before, other)

C13_Witness ==
    /\ AddedOk
    /\ config_op.section = "Left"
    /\ SectionItems(config_before, "modules-left") = <<JString("clock")>>
    /\ SectionItems(config, "modules-left") = <<JString("clock"), JString("custom/weather")>>
    /\ SectionItems(config, "modules-right") = <<JString("custom/weather")>>
    /\ MemberOf(config, "layer") = <<JScalar>>

\* C14: remove_module removes every occurrence of the module from all three
\* section arrays, keeps the other items in their order, and leaves all arrays
\* unchanged when the module occurs in none.
C14_RemoveModuleFromAllSections ==
    RemovedOk =>
        /\ \A key \in SectionKeySet :
              /\ Occurrences(SectionItems(config, key), config_op.module) = 0
              /\ SectionItems(config, key) =
                    SelectSeq(SectionItems(config_before, key),
                              LAMBDA v : v # JString(config_op.module))
        /\ \A key \in ConfigKeys :
              /\ MemberOf(config, key) # <<>> <=> MemberOf(config_before, key) # <<>>
              /\ Occurrences(SectionItems(config_before, key), config_op.module) = 0
                    => MemberOf(config, key) = MemberOf(config_before, key)

C14_Witness ==
    /\ RemovedOk
    /\ config_op.module = "clock"
    /\ SectionItems(config_before, "modules-left") = <<JNumber, JString("clock")>>
    /\ SectionItems(config_before, "modules-right") = <<JString("clock"), JNumber>>
    /\ SectionItems(config, "modules-left") = <<JNumber>>
    /\ SectionItems(config, "modules-right") = <<JNumber>>

\* no module name is listed in the arrays of two sections
WiredIntoOneSection(content) ==
    \A m \in ModuleNames :
        Cardinality({key \in SectionKeySet : Occurrences(SectionItems(content, key), m) > 0}) <= 1

\* C15: a config in which no module is wired into more than one section stays
\* such a config under every add_module and remove_module call.
C15_NeverInTwoSections == [][WiredIntoOneSection(config) => WiredIntoOneSection(config')]_vars

(***************************************************************************)
(* Properties of CSS injection and removal.                                *)
(***************************************************************************)
\* the blocks of uuid in a stylesheet, in order
BlocksOf(css, uuid) == SelectSeq(css, LAMBDA seg : seg.block /\ seg.uuid = uuid)

\* the user's own CSS in a stylesheet, in order
UserSegments(css) == SelectSeq(css, LAMBDA seg : ~seg.block)

CssWriters(kind) == {task \in CssInFlight : task.kind = kind /\ task.pc = "write"}

\* C16: the stylesheet an injection writes is one that injecting the same
\* module again leaves unchanged, with one block of that module; the
\* stylesheet a removal writes is the one it read without the blocks of its
\* uuid: the user's CSS and the blocks of every other module are kept.
C16_CssInjectIdempotentRemoveStripsOwnBlock ==
    /\ \A task \in CssWriters("inject") :
          LET once == new_css(task)
          IN  /\ inject_module_css(once, task.uuid, task.module_css) = once
              /\ BlocksOf(once, task.uuid) = <<CssBlock(task.uuid, task.module_css)>>
    /\ \A task \in CssWriters("remove") :
          LET stripped == new_css(task)
          IN  /\ BlocksOf(stripped, task.uuid) = <<>>
              /\ UserSegments(stripped) = UserSegments(task.existing_css)
              /\ \A other \in AppUuidStrings \ {task.uuid} :
                    BlocksOf(stripped, other) = BlocksOf(task.existing_css, other)
              /\ Len(stripped) = Len(task.existing_css) - Len(BlocksOf(task.existing_css, task.uuid))

C16_Witness ==
    \E again \in CssWriters("inject"), removal \in CssWriters("remove") :
        /\ again.existing_css = style.content
        /\ BlocksOf(style.content, again.uuid) = <<CssBlock(again.uuid, again.module_css)>>
        /\ new_css(again) = style.content
        /\ removal.existing_css = style.content
        /\ removal.uuid # again.uuid
        /\ BlocksOf(style.content, removal.uuid) # <<>>
        /\ UserSegments(style.content) # <<>>

\* the step in which an injection writes the stylesheet it computed
InjectionWrites(task) ==
    /\ CopiesIn(task, css_tasks') < CopiesIn(task, css_tasks)
    /\ style' = StyleFile(new_css(task))

\* C26 as stated: when injections for different modules overlap, under every
\* interleaving of their reads and writes no update is lost: the stylesheet
\* an injection writes holds the block of its module and everything the file
\* held just before the write, the blocks written by the other injection
\* included.
C26_NoLostUpdate ==
    [][\A task \in CssWriters("inject") :
          InjectionWrites(task) =>
             /\ BlocksOf((style').content, task.uuid) = <<CssBlock(task.uuid, task.module_css)>>
             /\ \A i \in 1..Len(style.content) :
                   ~(style.content[i].block /\ style.content[i].uuid = task.uuid) =>
                      \E j \in 1..Len((style').content) : (style').content[j] = style.content[i]
      ]_vars

(***************************************************************************)
(* Properties of the author profile and review fetches.                    *)
(***************************************************************************)
\* the call has ended after a profile body and a failed modules request
ModulesEndpointFailed ==
    /\ author_call.pc = "done"
    /\ author_call.profile.kind = "Ok"
    /\ author_call.modules.kind # "Ok"

\* C17 as stated: when the profile endpoint succeeds and the modules endpoint
\* fails, the call returns Ok with the profile and an empty module list.
C17_ProfileAlwaysReturned ==
    ModulesEndpointFailed =>
        /\ author_call.result.ok
        /\ author_call.result.profile.modules = <<>>

\* C17 amended: when the profile endpoint succeeds with a profile that maps
\* (id and module_count not negative) and the modules endpoint fails, the call
\* returns Ok with that profile and an empty module list; a profile that does
\* not map makes the call fail with "Failed to parse author profile".
C17_MappableProfileReturned ==
    ModulesEndpointFailed =>
        LET body == author_call.profile.body
        IN  IF body.id >= 0 /\ body.module_count >= 0
            THEN /\ author_call.result.ok
                 /\ author_call.result.profile.modules = <<>>
                 /\ author_call.result.profile.author =
                       [id |-> body.id, username |-> body.username,
                        module_count |-> body.module_count]
            ELSE /\ ~author_call.result.ok
                 /\ author_call.result.err = "Failed to parse author profile"

C17_Witness ==
    /\ ModulesEndpointFailed
    /\ author_call.modules = ResponseError(500, <<>>)
    /\ author_call.result.ok
    /\ author_call.result.profile.author.username = "jane"
    /\ author_call.result.profile.modules = <<>>

\* C18: a 404 response of the reviews endpoint yields Ok with the empty
\* ReviewsResponse (no reviews, total 0).
C18_ReviewsNotFoundIsEmpty ==
    (reviews_call.pc = "done" /\ reviews_call.response = ResponseError(404, NoReviewsBody)) =>
        /\ reviews_call.result.ok
        /\ reviews_call.result.reviews.reviews = <<>>
        /\ reviews_call.result.reviews.total = 0

C18_Witness ==
    /\ reviews_call.pc = "done"
    /\ reviews_call.response.kind = "ResponseError"
    /\ reviews_call.response.status = 404
    /\ reviews_call.result = ReviewsOk(DefaultReviews)

\* every number of the body fits the type the domain gives it
ReviewsBodyInRange(body) ==
    /\ body.total >= 0
    /\ \A i \in 1..Len(body.reviews) :
          /\ body.reviews[i].rating \in 0..255
          /\ body.reviews[i].id >= 0
          /\ body.reviews[i].helpful_count >= 0

\* C29: every error-status response of the reviews endpoint, whatever the
\* status, yields Ok with the empty ReviewsResponse; the call returns an
\* error only for a failure below HTTP (transport, decoding) and for a body
\* that does not map (a rating outside 0..=255, a negative count or total).
C29_AnyErrorStatusIsEmpty ==
    reviews_call.pc = "done" =>
        /\ reviews_call.response.kind = "ResponseError" =>
              reviews_call.result = ReviewsOk(DefaultReviews)
        /\ ~reviews_call.result.ok <=>
              \/ reviews_call.response.kind = "Transport"
              \/ /\ reviews_call.response.kind = "Ok"
                 /\ ~ReviewsBodyInRange(reviews_call.response.body)

C29_Witness ==
    /\ reviews_call.pc = "done"
    /\ reviews_call.response.kind = "ResponseError"
    /\ reviews_call.response.status = 500
    /\ reviews_call.result.ok
    /\ reviews_call.result.reviews.total = 0

(***************************************************************************)
(* Properties of the reload signal.                                        *)
(***************************************************************************)
Reloaded == reload_status # NotReloaded

\* C19 as stated: whenever the process-control call could be spawned and
\* exits with any non-zero status, reload_waybar returns Ok.
C19_AnyNonZeroExitTolerated ==
    (Reloaded /\ reload_status.spawned /\ reload_status.code # Some(0)) => reload_result.ok

\* C19 amended: reload_waybar returns Ok when the call could be spawned and
\* exits with status 0 or with status 1 (no process matched: the bar is not
\* running); every other exit (a status of 2 or more, or the end by a signal)
\* returns an error.
C19_OnlyExitOneTolerated ==
    (Reloaded /\ reload_status.spawned) =>
        (reload_result.ok <=> reload_status.code \in {Some(0), Some(1)})

C19_Witness ==
    /\ Reloaded
    /\ reload_status.spawned
    /\ reload_status.code = Some(1)
    /\ reload_result = ReloadOk

(***************************************************************************)
(* Properties of the preferences handlers.                                 *)
(***************************************************************************)
\* the last message was ResetPreferences and a schema was loaded
ResetDone == prefs_op.op = "reset" /\ preferences.schema # None

\* C20: a reset with a schema loaded sets the in-memory values to exactly the
\* all-defaults map of the schema and persists that map; when the save fails
\* the in-memory values are still the defaults and an Error notification is
\* pushed.
C20_ResetToDefaults ==
    ResetDone =>
        LET defaults == [k \in PrefKeys |-> preferences.schema[1][k]]
        IN  /\ preferences.values = defaults
            /\ notifications # <<>>
            /\ IF prefs_op.saved
               THEN /\ preference_files[prefs_op.uuid] = PreferencesFile(defaults)
                    /\ notifications[Len(notifications)] = "Success"
               ELSE notifications[Len(notifications)] = "Error"

C20_Witness ==
    /\ ResetDone
    /\ ~prefs_op.saved
    /\ preferences.open_for = Some(prefs_op.uuid)
    /\ preferences.schema = Some(ColorSizeSchema)
    /\ preferences.values = ColorSizeSchema
    /\ preference_files[prefs_op.uuid].values["color"] = "blue"
    /\ notifications = <<"Error">>

\* C24 as stated: the preferences file of a module is written by
\* handle_preference_changed or handle_reset_preferences only while the
\* dialog is open for that module, and a call that carries another uuid
\* writes no file and leaves preferences.values as they were.
C24_WritesOnlyForOpenUuid ==
    [][/\ \A u \in AppUuidStrings :
            preference_files'[u] # preference_files[u] => preferences.open_for = Some(u)
       /\ (prefs_op'.op \in {"changed", "reset"} /\ preferences.open_for # Some(prefs_op'.uuid))
             => UNCHANGED <<preferences, preference_files>>
      ]_vars

\* C27: preferences.open_for is set exactly when preferences.schema is set,
\* and while the dialog is closed preferences.values is empty, in every state
\* reached by opening, changing, resetting, closing and Escape.
C27_OpenForIffSchema ==
    /\ preferences.open_for = None <=> preferences.schema = None
    /\ preferences.open_for = None => preferences.values = EmptyMap

C27_Witness ==
    /\ prefs_op.op = "escape"
    /\ preferences.open_for = None
    /\ preferences.module_name = "custom/c"
    /\ \E u \in AppUuidStrings :
          /\ installed_modules[u].waybar_module_name = "custom/c"
          /\ preference_files[u] = PreferencesFile(ColorSizeSchema)

(***************************************************************************)
(* Properties of the confirmation flow and of the Escape key.              *)
(***************************************************************************)
\* the step starts an uninstall task for uuid
StartsUninstall(uuid) == uninstall_tasks'[uuid] # uninstall_tasks[uuid]

\* the step is a call of handle_confirm_action
IsConfirmAction == handle_confirm_action /\ ConfirmRest /\ LayersFrame

\* the step is a call of handle_request_confirmation for uuid
IsRequestConfirmation(uuid) ==
    handle_request_confirmation(UninstallModule(uuid)) /\ ConfirmRest /\ LayersFrame

\* the step is a call of handle_cancel_confirmation
IsCancelConfirmation == handle_cancel_confirmation /\ ConfirmRest /\ LayersFrame

\* the step is a call of handle_dismiss_notification
IsDismissNotification == handle_dismiss_notification /\ ConfirmRest /\ LayersFrame

\* the step is a call of handle_escape_pressed
IsEscapePressed ==
    /\ handle_escape_pressed
    /\ UNCHANGED <<installed_modules, preference_files, prefs_op>>
    /\ LayersFrame

\* C23: an uninstall task for u is started only by handle_confirm_action
\* while pending_action is UninstallModule{u}; pending_action comes to name u
\* only by a RequestConfirmation for u, and is taken away by a cancel, a
\* dismiss, an Escape that reaches the confirmation and a later request; a
\* confirmation with nothing pending changes no state, and a confirmation
\* clears the pending action and starts one task.
C23_UninstallOnlyByLiveConfirmation ==
    /\ [](LET after == confirm_action(None, uninstalling, uninstall_tasks)
          IN  /\ after.pending = None
              /\ after.uninstalling = uninstalling
              /\ after.tasks = uninstall_tasks)
    /\ [][/\ \A u \in AppUuids :
              StartsUninstall(u) =>
                 /\ IsConfirmAction
                 /\ pending_action = Some(UninstallModule(u))
                 /\ pending_action' = None
                 /\ uninstall_tasks' = [uninstall_tasks EXCEPT ![u] = @ + 1]
                 /\ uninstalling' = uninstalling \cup {u}
          /\ \A u \in AppUuids :
              (pending_action' = Some(UninstallModule(u)) /\ pending_action # pending_action')
                 => IsRequestConfirmation(u)
          /\ (\/ IsCancelConfirmation
              \/ IsDismissNotification
              \/ (IsEscapePressed /\ preferences.open_for = None))
                 => pending_action' = None
          ]_vars

C23_Witness ==
    /\ pending_action = None
    /\ uninstall_tasks[try_from(<<"a", At, "a">>)] = 1
    /\ uninstall_tasks[try_from(<<"b", At, "a">>)] = 0
    /\ try_from(<<"a", At, "a">>) \in uninstalling
    /\ preferences.module_name = "custom/b"
    /\ preferences.open_for = None

\* the layer Escape is to dismiss, by the priority the handlers document
TopLayer ==
    IF preferences.open_for # None THEN "preferences"
    ELSE IF pending_action # None THEN "confirmation"
    ELSE IF screen.tag = "ModuleDetail" THEN "detail"
    ELSE IF screen.tag = "Browse" /\ browse.search_query # "" THEN "browse search"
    ELSE IF screen.tag = "Installed" /\ installed.search_query # "" THEN "installed search"
    ELSE "notifications"

\* C28: each call of handle_escape_pressed dismisses one layer, the first
\* present of: the preferences dialog, the pending confirmation, the
\* module-detail screen (back to Browse, installing reset), the search query
\* of the current Browse screen, the search query of the current Installed
\* screen, the oldest notification; every other layer is left as it was.
C28_EscapeDismissesTopLayerOnly ==
    [][IsEscapePressed =>
         /\ TopLayer = "preferences" =>
               /\ (preferences').open_for = None
               /\ (preferences').schema = None
               /\ (preferences').values = EmptyMap
               /\ UNCHANGED <<pending_action, screen, module_detail, browse, installed,
                              notifications>>
         /\ TopLayer = "confirmation" =>
               /\ pending_action' = None
               /\ UNCHANGED <<preferences, screen, module_detail, browse, installed,
                              notifications>>
         /\ TopLayer = "detail" =>
               /\ screen' = ScreenOf("Browse")
               /\ (module_detail').installing = FALSE
               /\ UNCHANGED <<preferences, pending_action, browse, installed, notifications>>
         /\ TopLayer = "browse search" =>
               /\ (browse').search_query = ""
               /\ UNCHANGED <<preferences, pending_action, screen, module_detail, installed,
                              notifications>>
         /\ TopLayer = "installed search" =>
               /\ (installed').search_query = ""
               /\ UNCHANGED <<preferences, pending_action, screen, module_detail, browse,
                              notifications>>
         /\ TopLayer = "notifications" =>
               /\ notifications # <<>> => notifications' = Tail(notifications)
               /\ UNCHANGED <<preferences, pending_action, screen, module_detail, browse,
                              installed>>
      ]_vars

C28_Witness ==
    /\ preferences.open_for = None
    /\ preferences.module_name = "custom/b"
    /\ pending_action # None
    /\ screen.tag = "ModuleDetail"
    /\ module_detail.installing
    /\ browse.search_query = "q"
    /\ Len(notifications) = 2

(***************************************************************************)
(* Properties of the star rating.                                          *)
(***************************************************************************)
\* C30 as stated: rating_stars_text returns five glyphs (full + half +
\* empty) without arithmetic underflow for every rating a RegistryModule can
\* carry, ratings above 5.0 included.
C30_AlwaysFiveStars ==
    stars_call.pc = "shown" =>
        /\ ~stars_call.text.panicked
        /\ stars_call.text.full + stars_call.text.half + stars_call.text.empty = 5
====
